---- MODULE Spec2Model ----
(***************************************************************************)
(* Hebrew calendrical text parser and cross-calendar consistency          *)
(* validator of the tombstone proofreader (src/utils/hebrewTextUtils.ts,   *)
(* src/utils/hebrewDateValidator.ts) and the callers that validate a list  *)
(* of memorial entries (PDFProofreader.processFile, ProofreadingReport),   *)
(* the two api handlers (api/save-result.ts, api/history.ts) over their    *)
(* key-value store, and the upload page (PDFProofreader, PDFUploader).     *)
(*                                                                         *)
(* A JavaScript string is a sequence of characters.  An ASCII character    *)
(* is the one-character string itself ("backtick" names U+0060); a Hebrew  *)
(* character is named:                                                     *)
(*   "alef" .. "tav"          the 22 letters, U+05D0 ..                    *)
(*   "kaf_s" "mem_s" "nun_s" "pe_s" "tsadi_s"      the five final forms    *)
(*   "geresh" U+05F3, "gershayim" U+05F4           Hebrew punctuation      *)
(* null and undefined are the empty tuple <<>>; a present value v is the   *)
(* one-element tuple <<v>>; an object or a function is <<"object", name>>. *)
(***************************************************************************)
EXTENDS Integers, Sequences, FiniteSets, TLC

VARIABLES
    args,      \* the arguments of the call under way (a record)
    op,        \* the function that was applied to args; "none" before the call
    ret,       \* what the call returned; null before the call
    kv,        \* the key-value store: the records result:<id> and results:list
    blobs,     \* the blob store: the ids whose file is uploaded
    requests,  \* the requests to the two api handlers, in the order of arrival
    pushLog,   \* every id pushed on results:list, in the order of the pushes
    page,      \* the state of the PDFProofreader component
    uploader,  \* the state of the PDFUploader component
    runs       \* the runs of processFile, in the order they started

callVars == <<args, op, ret>>
serverVars == <<kv, blobs, requests, pushLog>>
pageVars == <<page, uploader, runs>>
vars == <<args, op, ret, kv, blobs, requests, pushLog, page, uploader, runs>>

(***************************************************************************)
(* Values and outcomes                                                     *)
(***************************************************************************)
null == <<>>
Some(v) == <<v>>
Get(o) == o[1]

\* A value that is not a number and not null: an object or a function, named
\* by the property it was read from.  It is a tuple of length 2, a number is
\* a tuple of length 1.
ObjectValue(key) == <<"object", key>>
IsNumber(o) == Len(o) = 1

\* JavaScript truthiness: null, undefined and 0 are falsy, an object is truthy.
Truthy(o) == o # null /\ (IsNumber(o) => Get(o) # 0)
\* a || b for numbers
OrElse(o, d) == IF Truthy(o) THEN Get(o) ELSE d
\* a || b where a may be an object: the result stays a value <<n>> or an object
OrElseValue(o, d) == IF Truthy(o) THEN o ELSE Some(d)
\* s || '' for an optional string: undefined, null and '' give ''
StrOrEmpty(o) == IF o = null THEN <<>> ELSE Get(o)

\* JavaScript evaluates an argument or the initializer of a const once:
\* "const x = e; body" is CallByValue(LAMBDA x : body, e).
CallByValue(F(_), x) == CHOOSE v \in {F(y) : y \in {x}} : TRUE

\* A call either returns a value or throws; an exception propagates through
\* every caller that has no try/catch around the call.
Return(v) == [kind |-> "return", value |-> v]
Throw == [kind |-> "throw", value |-> null]

\* The outcome of a call together with the calls it made to the conversion
\* functions, in the order they were made.
WithCalls(outcome, calls) ==
    [kind |-> outcome.kind, value |-> outcome.value, calls |-> calls]
Call(fn, arguments) == [fn |-> fn, args |-> arguments]

(***************************************************************************)
(* String primitives of the JavaScript runtime                             *)
(***************************************************************************)
\* \s of a regular expression, and what String.prototype.trim removes
WHITESPACE == {" ", "\t", "\n"}

\* String.prototype.includes
Includes(hay, needle) ==
    \E i \in 0..(Len(hay) - Len(needle)) :
        SubSeq(hay, i + 1, i + Len(needle)) = needle

RECURSIVE TrimStart(_)
TrimStart(s) ==
    IF s # <<>> /\ Head(s) \in WHITESPACE THEN TrimStart(Tail(s)) ELSE s

RECURSIVE TrimEnd(_)
TrimEnd(s) ==
    IF s # <<>> /\ s[Len(s)] \in WHITESPACE
    THEN TrimEnd(SubSeq(s, 1, Len(s) - 1)) ELSE s

\* String.prototype.trim
Trim(s) == TrimEnd(TrimStart(s))

LATIN_LOWER ==
    <<"a", "b", "c", "d", "e", "f", "g", "h", "i", "j", "k", "l", "m",
      "n", "o", "p", "q", "r", "s", "t", "u", "v", "w", "x", "y", "z">>
LATIN_UPPER ==
    <<"A", "B", "C", "D", "E", "F", "G", "H", "I", "J", "K", "L", "M",
      "N", "O", "P", "Q", "R", "S", "T", "U", "V", "W", "X", "Y", "Z">>

\* String.prototype.toLowerCase (only Latin letters have case here)
ToLowerCase(s) ==
    [i \in 1..Len(s) |->
        IF \E k \in 1..26 : LATIN_UPPER[k] = s[i]
        THEN LATIN_LOWER[CHOOSE k \in 1..26 : LATIN_UPPER[k] = s[i]]
        ELSE s[i]]

\* s.replace(/[set]/g, '')
RemoveAll(s, set) == SelectSeq(s, LAMBDA c : c \notin set)

\* dateStr.split(/\s+/).filter(Boolean): the maximal runs of non-whitespace
RECURSIVE SplitRuns(_, _, _)
SplitRuns(s, cur, acc) ==
    IF s = <<>> THEN (IF cur = <<>> THEN acc ELSE Append(acc, cur))
    ELSE IF Head(s) \in WHITESPACE
         THEN SplitRuns(Tail(s), <<>>, IF cur = <<>> THEN acc ELSE Append(acc, cur))
         ELSE SplitRuns(Tail(s), Append(cur, Head(s)), acc)

SplitWhitespace(s) == SplitRuns(s, <<>>, <<>>)

(***************************************************************************)
(* hebrewTextUtils.ts: tables                                              *)
(***************************************************************************)
\* a mutation of the table: final forms valued 500..900 (the "large finals"
\* convention) instead of the value of their non-final letter
HEBREW_LETTER_VALUES_LargeFinals ==
    [ alef |-> 1, bet |-> 2, gimel |-> 3, dalet |-> 4, he |-> 5,
      vav |-> 6, zayin |-> 7, het |-> 8, tet |-> 9, yod |-> 10,
      kaf |-> 20, kaf_s |-> 500, lamed |-> 30, mem |-> 40, mem_s |-> 600,
      nun |-> 50, nun_s |-> 700, samekh |-> 60, ayin |-> 70, pe |-> 80,
      pe_s |-> 800, tsadi |-> 90, tsadi_s |-> 900, qof |-> 100, resh |-> 200,
      shin |-> 300, tav |-> 400 ]

\* a mutation of the table: Shin valued 30, a zero lost
HEBREW_LETTER_VALUES_ShinThirty ==
    [ alef |-> 1, bet |-> 2, gimel |-> 3, dalet |-> 4, he |-> 5,
      vav |-> 6, zayin |-> 7, het |-> 8, tet |-> 9, yod |-> 10,
      kaf |-> 20, kaf_s |-> 20, lamed |-> 30, mem |-> 40, mem_s |-> 40,
      nun |-> 50, nun_s |-> 50, samekh |-> 60, ayin |-> 70, pe |-> 80,
      pe_s |-> 80, tsadi |-> 90, tsadi_s |-> 90, qof |-> 100, resh |-> 200,
      shin |-> 30, tav |-> 400 ]

HEBREW_LETTER_VALUES ==
    [ alef |-> 1, bet |-> 2, gimel |-> 3, dalet |-> 4, he |-> 5,
      vav |-> 6, zayin |-> 7, het |-> 8, tet |-> 9, yod |-> 10,
      kaf |-> 20, kaf_s |-> 20, lamed |-> 30, mem |-> 40, mem_s |-> 40,
      nun |-> 50, nun_s |-> 50, samekh |-> 60, ayin |-> 70, pe |-> 80,
      pe_s |-> 80, tsadi |-> 90, tsadi_s |-> 90, qof |-> 100, resh |-> 200,
      shin |-> 300, tav |-> 400 ]

\* The entries of HEBREW_MONTHS in insertion order (the order of
\* Object.entries), each <<name, number>>.
HEBREW_MONTHS ==
    << << <<"nun", "yod", "samekh", "nun_s">>, 1 >>,
       << <<"alef", "yod", "yod", "resh">>, 2 >>,
       << <<"samekh", "yod", "vav", "nun_s">>, 3 >>,
       << <<"samekh", "yod", "vav", "vav", "nun_s">>, 3 >>,
       << <<"tav", "mem", "vav", "zayin">>, 4 >>,
       << <<"alef", "bet">>, 5 >>,
       << <<"mem", "nun", "het", "mem_s", " ", "alef", "bet">>, 5 >>,
       << <<"mem", "nun", "\"", "alef">>, 5 >>,
       << <<"alef", "lamed", "vav", "lamed">>, 6 >>,
       << <<"tav", "shin", "resh", "yod">>, 7 >>,
       << <<"het", "shin", "vav", "nun_s">>, 8 >>,
       << <<"het", "shin", "vav", "vav", "nun_s">>, 8 >>,
       << <<"mem", "resh", "het", "shin", "vav", "nun_s">>, 8 >>,
       << <<"mem", "resh", " ", "het", "shin", "vav", "nun_s">>, 8 >>,
       << <<"kaf", "samekh", "lamed", "vav">>, 9 >>,
       << <<"kaf", "samekh", "lamed", "yod", "vav">>, 9 >>,
       << <<"tet", "bet", "tav">>, 10 >>,
       << <<"shin", "bet", "tet">>, 11 >>,
       << <<"alef", "dalet", "resh">>, 12 >>,
       << <<"alef", "dalet", "resh", " ", "alef", "'">>, 12 >>,
       << <<"alef", "dalet", "resh", " ", "alef">>, 12 >>,
       << <<"alef", "dalet", "resh", " ", "resh", "alef", "shin", "vav", "nun_s">>, 12 >>,
       << <<"alef", "dalet", "resh", " ", "bet", "'">>, 13 >>,
       << <<"alef", "dalet", "resh", " ", "bet">>, 13 >>,
       << <<"alef", "dalet", "resh", " ", "shin", "nun", "yod">>, 13 >>
    >>

\* The property names every object literal inherits from Object.prototype:
\* HEBREW_MONTHS is written as { ... }, so HEBREW_MONTHS[name] is defined for
\* each of them (a function, or the prototype itself for __proto__).
OBJECT_PROTOTYPE_KEYS ==
    { <<"c", "o", "n", "s", "t", "r", "u", "c", "t", "o", "r">>,
      <<"t", "o", "S", "t", "r", "i", "n", "g">>,
      <<"t", "o", "L", "o", "c", "a", "l", "e", "S", "t", "r", "i", "n", "g">>,
      <<"v", "a", "l", "u", "e", "O", "f">>,
      <<"h", "a", "s", "O", "w", "n", "P", "r", "o", "p", "e", "r", "t", "y">>,
      <<"i", "s", "P", "r", "o", "t", "o", "t", "y", "p", "e", "O", "f">>,
      <<"p", "r", "o", "p", "e", "r", "t", "y", "I", "s", "E", "n", "u", "m", "e", "r", "a", "b", "l", "e">>,
      <<"_", "_", "p", "r", "o", "t", "o", "_", "_">>,
      <<"_", "_", "d", "e", "f", "i", "n", "e", "G", "e", "t", "t", "e", "r", "_", "_">>,
      <<"_", "_", "d", "e", "f", "i", "n", "e", "S", "e", "t", "t", "e", "r", "_", "_">>,
      <<"_", "_", "l", "o", "o", "k", "u", "p", "G", "e", "t", "t", "e", "r", "_", "_">>,
      <<"_", "_", "l", "o", "o", "k", "u", "p", "S", "e", "t", "t", "e", "r", "_", "_">> }

\* HEBREW_MONTHS[key]: the value of the entry with that key, the inherited
\* property of that name, or undefined
MonthLookup(key) ==
    IF \E i \in 1..Len(HEBREW_MONTHS) : HEBREW_MONTHS[i][1] = key
    THEN Some(HEBREW_MONTHS[CHOOSE i \in 1..Len(HEBREW_MONTHS) :
                                HEBREW_MONTHS[i][1] = key][2])
    ELSE IF key \in OBJECT_PROTOTYPE_KEYS THEN ObjectValue(key)
    ELSE null

(***************************************************************************)
(* hebrewTextUtils.ts: hebrewNumeralToInt                                  *)
(***************************************************************************)
\* the character class of the first replace(): apostrophe, double quote,
\* gershayim U+05F4, geresh U+05F3, backtick
NUMERAL_MARKS == {"'", "\"", "gershayim", "geresh", "backtick"}

\* for (const char of cleaned) { ... }: the state after the loop
RECURSIVE SumLetters(_, _, _)
SumLetters(cleaned, total, hasValidLetter) ==
    IF cleaned = <<>> THEN [total |-> total, hasValidLetter |-> hasValidLetter]
    ELSE IF Head(cleaned) \in DOMAIN HEBREW_LETTER_VALUES
         THEN SumLetters(Tail(cleaned),
                         total + HEBREW_LETTER_VALUES[Head(cleaned)], TRUE)
         ELSE SumLetters(Tail(cleaned), total, hasValidLetter)

hebrewNumeralToInt(hebrewNum) ==
    IF hebrewNum = <<>> THEN null
    ELSE LET Result(end) == IF end.hasValidLetter THEN Some(end.total) ELSE null
             Decode(cleaned) ==
                 IF cleaned = <<>> THEN null
                 ELSE CallByValue(Result, SumLetters(cleaned, 0, FALSE))
         IN  CallByValue(Decode,
                         Trim(RemoveAll(RemoveAll(hebrewNum, NUMERAL_MARKS),
                                        WHITESPACE)))

\* a mutation: the millennium added to every value
parseHebrewYear_AlwaysAdd(yearStr) ==
    LET Normalize(numericValue) ==
            IF numericValue = null THEN null
            ELSE Some(5000 + Get(numericValue))
    IN  CallByValue(Normalize, hebrewNumeralToInt(yearStr))

parseHebrewYear(yearStr) ==
    LET Normalize(numericValue) ==
            IF numericValue = null THEN null
            ELSE IF Get(numericValue) < 1000 THEN Some(5000 + Get(numericValue))
            ELSE numericValue
    IN  CallByValue(Normalize, hebrewNumeralToInt(yearStr))

(***************************************************************************)
(* hebrewTextUtils.ts: parseHebrewMonth                                    *)
(***************************************************************************)
\* The indices of the table entries whose name contains the token or is
\* contained in it.
PartialMatches(lowerCleaned) ==
    { i \in 1..Len(HEBREW_MONTHS) :
        \/ Includes(HEBREW_MONTHS[i][1], lowerCleaned)
        \/ Includes(lowerCleaned, HEBREW_MONTHS[i][1]) }

SetMin(S) == CHOOSE x \in S : \A y \in S : x <= y
SetMax(S) == CHOOSE x \in S : \A y \in S : x >= y

\* a mutation: the iteration over the table starts one entry further at
\* every call of a session (args.log holds the calls made so far)
FirstPartialMatch_Rotating(lowerCleaned) ==
    LET start == Len(args.log) % Len(HEBREW_MONTHS)
        Rank(i) == (i - 1 - start) % Len(HEBREW_MONTHS)
        First(hits) ==
            IF hits # {}
            THEN Some(HEBREW_MONTHS[CHOOSE i \in hits :
                                        \A j \in hits : Rank(i) <= Rank(j)][2])
            ELSE null
    IN  CallByValue(First, PartialMatches(lowerCleaned))

\* the loop over Object.entries(HEBREW_MONTHS): the first entry that matches
FirstPartialMatch(lowerCleaned) ==
    LET First(hits) == IF hits # {} THEN Some(HEBREW_MONTHS[SetMin(hits)][2])
                       ELSE null
    IN  CallByValue(First, PartialMatches(lowerCleaned))

parseHebrewMonth(monthStr) ==
    IF monthStr = <<>> THEN null
    ELSE LET Resolve(cleaned) ==
                 IF MonthLookup(cleaned) # null THEN MonthLookup(cleaned)
                 ELSE CallByValue(FirstPartialMatch, ToLowerCase(cleaned))
         IN  CallByValue(Resolve, Trim(monthStr))

(***************************************************************************)
(* hebrewTextUtils.ts: parseHebrewDate                                     *)
(***************************************************************************)
\* a mutation of the prefix test: only the preposition Bet is dropped
SKIPPED_PREFIXES_OnlyBet == { <<"bet">> }

\* part === 'ב' || part === 'ל' || part === 'נפ\''
SKIPPED_PREFIXES == { <<"bet">>, <<"lamed">>, <<"nun", "pe", "'">> }

NothingParsed == [day |-> null, month |-> null, monthName |-> null, year |-> null]

\* a mutation of the loop body: the day range taken as 1..31
ParseStep_DayUpTo31(st, part) ==
    IF part \in SKIPPED_PREFIXES THEN st
    ELSE LET AsNumber(numValue) ==
                 IF numValue = null THEN st
                 ELSE IF \/ Get(numValue) > 31
                         \/ Includes(part, <<"tav">>)
                         \/ Includes(part, <<"shin">>)
                      THEN [st EXCEPT !.year =
                               Some(IF Get(numValue) < 1000
                                    THEN 5000 + Get(numValue)
                                    ELSE Get(numValue))]
                      ELSE IF Get(numValue) >= 1 /\ Get(numValue) <= 31
                           THEN [st EXCEPT !.day = numValue]
                           ELSE st
             AsMonth(monthMatch) ==
                 IF monthMatch # null
                 THEN [st EXCEPT !.month = monthMatch, !.monthName = Some(part)]
                 ELSE CallByValue(AsNumber, hebrewNumeralToInt(part))
         IN  CallByValue(AsMonth, parseHebrewMonth(part))

\* a mutation of the loop body: the numeral is decoded before the month is
\* looked up
ParseStep_NumeralFirst(st, part) ==
    IF part \in SKIPPED_PREFIXES THEN st
    ELSE LET AsMonth(monthMatch) ==
                 IF monthMatch # null
                 THEN [st EXCEPT !.month = monthMatch, !.monthName = Some(part)]
                 ELSE st
             AsNumber(numValue) ==
                 IF numValue = null
                 THEN CallByValue(AsMonth, parseHebrewMonth(part))
                 ELSE IF \/ Get(numValue) > 31
                         \/ Includes(part, <<"tav">>)
                         \/ Includes(part, <<"shin">>)
                      THEN [st EXCEPT !.year =
                               Some(IF Get(numValue) < 1000
                                    THEN 5000 + Get(numValue)
                                    ELSE Get(numValue))]
                      ELSE IF Get(numValue) >= 1 /\ Get(numValue) <= 30
                           THEN [st EXCEPT !.day = numValue]
                           ELSE st
         IN  CallByValue(AsNumber, hebrewNumeralToInt(part))

\* one iteration of for (const part of parts)
ParseStep(st, part) ==
    IF part \in SKIPPED_PREFIXES THEN st
    ELSE LET AsNumber(numValue) ==
                 IF numValue = null THEN st
                 ELSE IF \/ Get(numValue) > 31
                         \/ Includes(part, <<"tav">>)
                         \/ Includes(part, <<"shin">>)
                      THEN [st EXCEPT !.year =
                               Some(IF Get(numValue) < 1000
                                    THEN 5000 + Get(numValue)
                                    ELSE Get(numValue))]
                      ELSE IF Get(numValue) >= 1 /\ Get(numValue) <= 30
                           THEN [st EXCEPT !.day = numValue]
                           ELSE st
             AsMonth(monthMatch) ==
                 IF monthMatch # null
                 THEN [st EXCEPT !.month = monthMatch, !.monthName = Some(part)]
                 ELSE CallByValue(AsNumber, hebrewNumeralToInt(part))
         IN  CallByValue(AsMonth, parseHebrewMonth(part))

\* a mutation of the loop: the tokens taken from the last to the first
RECURSIVE ParseParts_RightToLeft(_, _)
ParseParts_RightToLeft(st, parts) ==
    IF parts = <<>> THEN st
    ELSE CallByValue(LAMBDA rest : ParseStep(rest, Head(parts)),
                     ParseParts_RightToLeft(st, Tail(parts)))

\* for (const part of parts) { ... }: the state after the loop
RECURSIVE ParseParts(_, _)
ParseParts(st, parts) ==
    IF parts = <<>> THEN st
    ELSE CallByValue(LAMBDA next : ParseParts(next, Tail(parts)),
                     CallByValue(LAMBDA part : ParseStep(st, part), Head(parts)))

parseHebrewDate(dateStr) ==
    IF dateStr = <<>> THEN NothingParsed
    ELSE CallByValue(LAMBDA parts : ParseParts(NothingParsed, parts),
                     SplitWhitespace(dateStr))

(***************************************************************************)
(* hebrewTextUtils.ts: extractGregorianYears                               *)
(***************************************************************************)
DIGITS == <<"0", "1", "2", "3", "4", "5", "6", "7", "8", "9">>

IsDigit(c) == \E d \in 1..10 : DIGITS[d] = c
DigitValue(c) == (CHOOSE d \in 1..10 : DIGITS[d] = c) - 1

\* \w of a regular expression without the u flag: ASCII letters, digits, _
IsWordChar(c) ==
    \/ IsDigit(c) \/ c = "_"
    \/ \E k \in 1..26 : c \in {LATIN_LOWER[k], LATIN_UPPER[k]}

\* /\b(19\d{2}|20\d{2})\b/ matches at position i
YearMatchAt(text, i) ==
    /\ i + 3 <= Len(text)
    /\ \/ text[i] = "1" /\ text[i + 1] = "9"
       \/ text[i] = "2" /\ text[i + 1] = "0"
    /\ IsDigit(text[i + 2]) /\ IsDigit(text[i + 3])
    /\ i = 1 \/ ~IsWordChar(text[i - 1])
    /\ i + 3 = Len(text) \/ ~IsWordChar(text[i + 4])

\* Number("dddd")
NumberOf(text, i) ==
    1000 * DigitValue(text[i]) + 100 * DigitValue(text[i + 1])
        + 10 * DigitValue(text[i + 2]) + DigitValue(text[i + 3])

\* text.match(yearPattern).map(Number): the matches from position i on,
\* left to right, not overlapping
RECURSIVE YearMatches(_, _)
YearMatches(text, i) ==
    IF i > Len(text) THEN <<>>
    ELSE IF YearMatchAt(text, i)
         THEN <<NumberOf(text, i)>> \o YearMatches(text, i + 4)
         ELSE YearMatches(text, i + 1)

\* a mutation: the matches taken in the order of the text, not sorted
extractGregorianYears_TextOrder(text) ==
    LET Assign(years) ==
            IF Len(years) = 1
            THEN [birthYear |-> null, deathYear |-> Some(years[1])]
            ELSE [birthYear |-> Some(years[1]),
                  deathYear |-> Some(years[Len(years)])]
        Extract(matches) ==
            IF matches = <<>> THEN [birthYear |-> null, deathYear |-> null]
            ELSE CallByValue(Assign, matches)
    IN  CallByValue(Extract, YearMatches(text, 1))

extractGregorianYears(text) ==
    LET Assign(years) ==
            IF Len(years) = 1
            THEN [birthYear |-> null, deathYear |-> Some(years[1])]
            ELSE [birthYear |-> Some(years[1]),
                  deathYear |-> Some(years[Len(years)])]
        Extract(matches) ==
            IF matches = <<>> THEN [birthYear |-> null, deathYear |-> null]
            ELSE CallByValue(Assign, SortSeq(matches, LAMBDA a, b : a < b))
    IN  CallByValue(Extract, YearMatches(text, 1))

(***************************************************************************)
(* hebrewDateValidator.ts and the calendar collaborator (@hebcal/core)     *)
(*                                                                         *)
(* The behaviour of the collaborator during one call is a record cal:      *)
(*   hdate     "ok" or "throw": what new HDate(day, month, year) does      *)
(*   offset    Hebrew year minus the Gregorian year of the converted date  *)
(*   month     getMonth() of the converted date (0-based)                  *)
(*   date      getDate() of the converted date                            *)
(*   fromGreg  "ok" or "throw": what new HDate(date) does                  *)
(***************************************************************************)
\* months.NISAN = 1 .. months.ADAR_II = 13 in @hebcal/core
MONTH_TO_HEBCAL == [m \in 1..13 |-> m]

\* new HDate(day, hebcalMonth, year).greg()
HDateGreg(day, hebcalMonth, year, cal) ==
    IF cal.hdate = "throw" THEN Throw
    ELSE Return([fullYear |-> year - cal.offset, month |-> cal.month,
                 date |-> cal.date])

\* a mutation: the conversion without its try/catch
hebrewToGregorian_NoCatch(day, month, year, cal) ==
    LET hebcalMonth == IF IsNumber(month) /\ Get(month) \in DOMAIN MONTH_TO_HEBCAL
                       THEN Some(MONTH_TO_HEBCAL[Get(month)]) ELSE null
    IN  IF ~Truthy(hebcalMonth) THEN Return(null)
        ELSE LET greg == HDateGreg(day, Get(hebcalMonth), year, cal)
             IN  IF greg.kind = "throw" THEN Throw
                 ELSE Return(Some(greg.value))

\* month is whatever parseHebrewMonth returned or the default: a number <<n>>
\* or an object; MONTH_TO_HEBCAL has no property named after an object
hebrewToGregorian(day, month, year, cal) ==
    LET hebcalMonth == IF IsNumber(month) /\ Get(month) \in DOMAIN MONTH_TO_HEBCAL
                       THEN Some(MONTH_TO_HEBCAL[Get(month)]) ELSE null
    IN  IF ~Truthy(hebcalMonth) THEN Return(null)
        ELSE LET greg == HDateGreg(day, Get(hebcalMonth), year, cal)
             IN  IF greg.kind = "throw" THEN Return(null)   \* catch
                 ELSE Return(Some(greg.value))

\* new HDate(date) and its getters; 1 January falls in Hebrew year + 3760
HDateOfGregorian(date, cal) ==
    IF cal.fromGreg = "throw" THEN Throw
    ELSE Return([day |-> 1, month |-> 10, monthName |-> "Tevet",
                 year |-> date.fullYear + 3760])

\* a mutation: the conversion without its try/catch
gregorianToHebrew_NoCatch(date, cal) ==
    LET hdate == HDateOfGregorian(date, cal)
    IN  IF hdate.kind = "throw" THEN Throw
        ELSE Return(Some(hdate.value))

gregorianToHebrew(date, cal) ==
    LET hdate == HDateOfGregorian(date, cal)
    IN  IF hdate.kind = "throw" THEN Return(null)   \* catch
        ELSE Return(Some(hdate.value))

\* String(n) of an integer, as a template literal interpolates it
RECURSIVE NatToString(_)
NatToString(n) ==
    IF n < 10 THEN <<DIGITS[n + 1]>>
    ELSE Append(NatToString(n \div 10), DIGITS[(n % 10) + 1])

NumberToString(n) == IF n < 0 THEN <<"-">> \o NatToString(-n) ELSE NatToString(n)

Abs(n) == IF n < 0 THEN -n ELSE n

\* `"${lastTwo}`
getHebrewYearSuffix(year) == <<"\"">> \o NumberToString(year % 100)

\* 'לא נמצאה שנה גרגוריאנית להשוואה'
MSG_NO_GREGORIAN_YEAR ==
    <<"lamed", "alef", " ", "nun", "mem", "tsadi", "alef", "he", " ",
      "shin", "nun", "he", " ", "gimel", "resh", "gimel", "vav", "resh",
      "yod", "alef", "nun", "yod", "tav", " ", "lamed", "he", "shin", "vav",
      "vav", "alef", "he">>

\* 'לא נמצאה שנה עברית להשוואה'
MSG_NO_HEBREW_YEAR ==
    <<"lamed", "alef", " ", "nun", "mem", "tsadi", "alef", "he", " ",
      "shin", "nun", "he", " ", "ayin", "bet", "resh", "yod", "tav", " ",
      "lamed", "he", "shin", "vav", "vav", "alef", "he">>

\* 'לא ניתן להמיר את התאריך העברי'
MSG_CANNOT_CONVERT ==
    <<"lamed", "alef", " ", "nun", "yod", "tav", "nun_s", " ", "lamed", "he",
      "mem", "yod", "resh", " ", "alef", "tav", " ", "he", "tav", "alef",
      "resh", "yod", "kaf_s", " ", "he", "ayin", "bet", "resh", "yod">>

\* `${convertedDate.getDate()}/${convertedDate.getMonth() + 1}/${convertedYear}`
FormatGregorianDate(convertedDate) ==
    NumberToString(convertedDate.date) \o <<"/">>
    \o NumberToString(convertedDate.month + 1) \o <<"/">>
    \o NumberToString(convertedDate.fullYear)

\* a DateValidationResult; an omitted optional field is null
ValidationResult(hebrewDate, gregorianDate, isConsistent, expectedGregorianDate, expectedHebrewDate, discrepancyExplanation) ==
    [ hebrewDate |-> hebrewDate,
      gregorianDate |-> gregorianDate,
      isConsistent |-> isConsistent,
      expectedGregorianDate |-> expectedGregorianDate,
      expectedHebrewDate |-> expectedHebrewDate,
      discrepancyExplanation |-> discrepancyExplanation ]

\* a mutation: missing data reported as a mismatch
InsufficientData_Flagged(hebrewDateInfo, gregorianDateInfo, hebrewYear, deathYear) ==
    Return(ValidationResult(
        hebrewDateInfo, gregorianDateInfo, FALSE, null, null,
        IF Truthy(hebrewYear) /\ ~Truthy(deathYear)
        THEN Some(MSG_NO_GREGORIAN_YEAR)
        ELSE IF ~Truthy(hebrewYear) /\ Truthy(deathYear)
             THEN Some(MSG_NO_HEBREW_YEAR)
             ELSE null))

\* a mutation: the two messages exchanged
InsufficientData_Swapped(hebrewDateInfo, gregorianDateInfo, hebrewYear, deathYear) ==
    Return(ValidationResult(
        hebrewDateInfo, gregorianDateInfo, TRUE, null, null,
        IF Truthy(hebrewYear) /\ ~Truthy(deathYear)
        THEN Some(MSG_NO_HEBREW_YEAR)
        ELSE IF ~Truthy(hebrewYear) /\ Truthy(deathYear)
             THEN Some(MSG_NO_GREGORIAN_YEAR)
             ELSE null))

\* the return of the branch if (!parsedHebrew.year || !deathYear)
InsufficientData(hebrewDateInfo, gregorianDateInfo, hebrewYear, deathYear) ==
    Return(ValidationResult(
        hebrewDateInfo, gregorianDateInfo, TRUE, null, null,
        IF Truthy(hebrewYear) /\ ~Truthy(deathYear)
        THEN Some(MSG_NO_GREGORIAN_YEAR)
        ELSE IF ~Truthy(hebrewYear) /\ Truthy(deathYear)
             THEN Some(MSG_NO_HEBREW_YEAR)
             ELSE null))

\* a mutation: an unconvertible date reported as a mismatch
ConversionFailed_Flagged(hebrewDateInfo, gregorianDateInfo) ==
    Return(ValidationResult(hebrewDateInfo, gregorianDateInfo, FALSE, null, null,
                            Some(MSG_CANNOT_CONVERT)))

\* the return of the branch if (!convertedDate)
ConversionFailed(hebrewDateInfo, gregorianDateInfo) ==
    Return(ValidationResult(hebrewDateInfo, gregorianDateInfo, TRUE, null, null,
                            Some(MSG_CANNOT_CONVERT)))

\* a mutation: the tolerance of one year dropped
YearsAgree_Exact(convertedYear, deathYear) ==
    Abs(convertedYear - deathYear) < 1

\* yearDiff = Math.abs(convertedYear - deathYear); isConsistent = yearDiff <= 1
YearsAgree(convertedYear, deathYear) ==
    Abs(convertedYear - deathYear) <= 1

\* a mutation: the explanation names the recorded year twice
MismatchExplanation_NoConvertedYear(hebrewDateStr, convertedYear, deathYear) ==
    <<"he", "tav", "alef", "resh", "yod", "kaf_s", " ", "he", "ayin", "bet",
      "resh", "yod", " ">>
    \o hebrewDateStr
    \o <<" ", "mem", "tav", "alef", "yod", "mem_s", " ", "lamed", "shin",
         "nun", "he", " ">>
    \o NumberToString(deathYear)
    \o <<" ", "vav", "lamed", "alef", " ", "lamed", "-">>
    \o NumberToString(deathYear)

\* `התאריך העברי ${hebrewDateStr} מתאים לשנה ${convertedYear} ולא ל-${deathYear}`
MismatchExplanation(hebrewDateStr, convertedYear, deathYear) ==
    <<"he", "tav", "alef", "resh", "yod", "kaf_s", " ", "he", "ayin", "bet",
      "resh", "yod", " ">>
    \o hebrewDateStr
    \o <<" ", "mem", "tav", "alef", "yod", "mem_s", " ", "lamed", "shin",
         "nun", "he", " ">>
    \o NumberToString(convertedYear)
    \o <<" ", "vav", "lamed", "alef", " ", "lamed", "-">>
    \o NumberToString(deathYear)

\* a mutation: a consistent result that still carries an expected date
ConsistentResult_WithExpectedDate(hebrewDateInfo, gregorianDateInfo) ==
    Return(ValidationResult(hebrewDateInfo, gregorianDateInfo, TRUE,
                            Some(<<"1", "/", "1", "/", "2", "0", "1", "9">>),
                            null, null))

\* the return of the branch if (isConsistent)
ConsistentResult(hebrewDateInfo, gregorianDateInfo) ==
    Return(ValidationResult(hebrewDateInfo, gregorianDateInfo, TRUE,
                            null, null, null))

\* the part of validateDateConsistency after the conversion returned a date
CompareYears(hebrewDateStr, hebrewDateInfo, gregorianDateInfo, convertedDate, deathYear, cal) ==
    LET convertedYear == convertedDate.fullYear
        isConsistent == YearsAgree(convertedYear, deathYear)
    IN  IF isConsistent
        THEN WithCalls(ConsistentResult(hebrewDateInfo, gregorianDateInfo), <<>>)
        ELSE LET expectedGregorianDate == FormatGregorianDate(convertedDate)
                 gregorianAsDate == [fullYear |-> deathYear, month |-> 0, date |-> 1]
                 expectedHebrew == gregorianToHebrew(gregorianAsDate, cal)
                 calls == <<Call("gregorianToHebrew", <<gregorianAsDate>>)>>
             IN  IF expectedHebrew.kind = "throw" THEN WithCalls(Throw, calls)
                 ELSE LET expectedHebrewYear ==
                              IF expectedHebrew.value # null
                              THEN Some(<<"he", "'", "tav", "shin">> \o
                                        getHebrewYearSuffix(Get(expectedHebrew.value).year))
                              ELSE null
                      IN  WithCalls(
                              Return(ValidationResult(
                                  hebrewDateInfo, gregorianDateInfo, FALSE,
                                  Some(expectedGregorianDate), expectedHebrewYear,
                                  Some(MismatchExplanation(hebrewDateStr, convertedYear,
                                                           deathYear)))),
                              calls)

\* a mutation: rawText holds the trimmed input
HebrewDateInfoOf_Trimmed(parsedHebrew, hebrewDateStr) ==
    [ day |-> parsedHebrew.day,
      month |-> parsedHebrew.monthName,
      monthNumeric |-> parsedHebrew.month,
      year |-> parsedHebrew.year,
      rawText |-> Trim(hebrewDateStr) ]

\* const hebrewDateInfo: HebrewDateInfo = { ... }
HebrewDateInfoOf(parsedHebrew, hebrewDateStr) ==
    [ day |-> parsedHebrew.day,
      month |-> parsedHebrew.monthName,
      monthNumeric |-> parsedHebrew.month,
      year |-> parsedHebrew.year,
      rawText |-> hebrewDateStr ]

\* const gregorianDateInfo: GregorianDateInfo = { ... }
GregorianDateInfoOf(deathYear, gregorianYearStr) ==
    [year |-> deathYear, rawText |-> gregorianYearStr]

\* a mutation: the first day of the first month as the defaults
ConversionArguments_FirstOfNisan(parsedHebrew) ==
    <<OrElse(parsedHebrew.day, 1), OrElseValue(parsedHebrew.month, 1),
      Get(parsedHebrew.year)>>

\* dayToUse = parsedHebrew.day || 15, monthToUse = parsedHebrew.month || 7,
\* and parsedHebrew.year: the arguments of hebrewToGregorian
ConversionArguments(parsedHebrew) ==
    <<OrElse(parsedHebrew.day, 15), OrElseValue(parsedHebrew.month, 7),
      Get(parsedHebrew.year)>>

\* validateDateConsistency from the test of the two years on
ValidateParsed(hebrewDateStr, gregorianYearStr, parsedHebrew, deathYear, cal) ==
    LET hebrewDateInfo == HebrewDateInfoOf(parsedHebrew, hebrewDateStr)
        gregorianDateInfo == GregorianDateInfoOf(deathYear, gregorianYearStr)
    IN  IF ~Truthy(parsedHebrew.year) \/ ~Truthy(deathYear)
        THEN WithCalls(InsufficientData(hebrewDateInfo, gregorianDateInfo,
                                        parsedHebrew.year, deathYear), <<>>)
        ELSE LET Convert(toUse) ==
                     LET calls == <<Call("hebrewToGregorian", toUse)>>
                         Compare(converted) ==
                             IF converted.kind = "throw" THEN WithCalls(Throw, calls)
                             ELSE IF converted.value = null
                                  THEN WithCalls(ConversionFailed(hebrewDateInfo,
                                                                  gregorianDateInfo),
                                                 calls)
                                  ELSE LET rest == CompareYears(
                                                       hebrewDateStr, hebrewDateInfo,
                                                       gregorianDateInfo,
                                                       Get(converted.value),
                                                       Get(deathYear), cal)
                                       IN  WithCalls(rest, calls \o rest.calls)
                     IN  CallByValue(Compare,
                                     hebrewToGregorian(toUse[1], toUse[2], toUse[3],
                                                       cal))
             IN  CallByValue(Convert, ConversionArguments(parsedHebrew))

\* const parsedHebrew = parseHebrewDate(hebrewDateStr);
\* const { deathYear } = extractGregorianYears(gregorianYearStr); ...
\* a mutation: the birth year taken from the extracted years
validateDateConsistency_BirthYear(hebrewDateStr, gregorianYearStr, cal) ==
    CallByValue(LAMBDA parsed : ValidateParsed(hebrewDateStr, gregorianYearStr,
                                               parsed[1], parsed[2], cal),
                <<parseHebrewDate(hebrewDateStr),
                  extractGregorianYears(gregorianYearStr).birthYear>>)

validateDateConsistency(hebrewDateStr, gregorianYearStr, cal) ==
    CallByValue(LAMBDA parsed : ValidateParsed(hebrewDateStr, gregorianYearStr,
                                               parsed[1], parsed[2], cal),
                <<parseHebrewDate(hebrewDateStr),
                  extractGregorianYears(gregorianYearStr).deathYear>>)

(***************************************************************************)
(* Validation of a list of memorial entries                                *)
(***************************************************************************)
\* the validations of a list of <<Hebrew date, Gregorian years>> pairs, in
\* the order of the list; an exception thrown by one ends the whole loop
ValidateEach(pairs, cal) ==
    LET Validate(pair) == validateDateConsistency(pair[1], pair[2], cal)
        Collect(validations) ==
            IF \E i \in 1..Len(validations) : validations[i].kind = "throw"
            THEN Throw
            ELSE Return([i \in 1..Len(validations) |-> validations[i].value])
    IN  CallByValue(Collect,
                    [i \in 1..Len(pairs) |-> CallByValue(Validate, pairs[i])] \o <<>>)

\* hebrewDateValidator.ts validateAllDates: memorials have the fields
\* hebrewDate, gregorianYears, name
validateAllDates(memorials, cal) ==
    LET kept == SelectSeq(memorials,
                    LAMBDA m : StrOrEmpty(m.hebrewDate) # <<>>
                               \/ StrOrEmpty(m.gregorianYears) # <<>>)
    IN  ValidateEach([i \in 1..Len(kept) |->
                         <<StrOrEmpty(kept[i].hebrewDate),
                           StrOrEmpty(kept[i].gregorianYears)>>],
                     cal)

\* processFile, step 3: for (const memorial of allMemorials) { if (...) push }
ProcessFileValidateDates(allMemorials, cal) ==
    LET kept == SelectSeq(allMemorials,
                    LAMBDA m : StrOrEmpty(m.hebrewDeathDate) # <<>>
                               \/ StrOrEmpty(m.gregorianYears) # <<>>)
    IN  ValidateEach([i \in 1..Len(kept) |->
                         <<StrOrEmpty(kept[i].hebrewDeathDate),
                           StrOrEmpty(kept[i].gregorianYears)>>],
                     cal)

\* ProofreadingReport: dateValidation.map((validation, index) => a panel of
\* validation and extractedText?.memorials[index]?.name)
DateValidationPanels(memorials, dateValidation) ==
    [ index \in 1..Len(dateValidation) |->
        [ validation |-> dateValidation[index],
          personName |-> IF index <= Len(memorials)
                         THEN memorials[index].name ELSE null ] ]

(***************************************************************************)
(* api/save-result.ts and api/history.ts: the key-value store              *)
(***************************************************************************)
\* kv.ltrim('results:list', 0, 99): the last index kept
LAST_KEPT_INDEX == 99
\* const { id, limit = '20' } = req.query and parseInt(limit) || 20
DEFAULT_LIMIT == 20
\* Math.min(..., 100)
MAX_LIMIT == 100

Min(a, b) == IF a <= b THEN a ELSE b
Max(a, b) == IF a >= b THEN a ELSE b

\* LRANGE key start stop of the store: indices count from 0, stop is
\* inclusive, a negative index counts from the end of the list (-1 is the
\* last element), indices out of range are clamped
LRange(list, start, stop) ==
    LET n == Len(list)
        first == IF start < 0 THEN Max(n + start, 0) ELSE start
        last == IF stop < 0 THEN n + stop ELSE Min(stop, n - 1)
    IN  IF first > last \/ first >= n THEN <<>>
        ELSE SubSeq(list, first + 1, last + 1)

\* LTRIM key start stop: the list becomes the range LRANGE would return
LTrim(list, start, stop) == LRange(list, start, stop)

\* a mutation: the id added at the tail (RPUSH)
LPush_AtTail(list, id) == list \o <<id>>

\* LPUSH key id: the id becomes the head of the list
LPush(list, id) == <<id>> \o list

\* kv.set('result:' + id, storedResult)
KvSet(results, id, storedResult) ==
    [k \in DOMAIN results \cup {id} |->
        IF k = id THEN storedResult ELSE results[k]]

\* kv.get('result:' + id): null for a key that is not set
KvGet(results, id) == IF id \in DOMAIN results THEN Some(results[id]) ELSE null

(***************************************************************************)
(* api/history.ts: the limit of the query                                  *)
(***************************************************************************)
HEX_LETTERS == <<"a", "b", "c", "d", "e", "f">>
HEX_LETTERS_UPPER == <<"A", "B", "C", "D", "E", "F">>

\* the value of a digit of the radix, null for another character
DigitOfRadix(c, radix) ==
    IF IsDigit(c) THEN Some(DigitValue(c))
    ELSE IF radix = 16 /\ \E k \in 1..6 : c \in {HEX_LETTERS[k], HEX_LETTERS_UPPER[k]}
         THEN Some(9 + CHOOSE k \in 1..6 : c \in {HEX_LETTERS[k], HEX_LETTERS_UPPER[k]})
         ELSE null

\* the longest prefix of digits, read as a number; null when it is empty
RECURSIVE DigitsPrefix(_, _, _)
DigitsPrefix(s, radix, acc) ==
    IF s = <<>> \/ DigitOfRadix(Head(s), radix) = null THEN acc
    ELSE DigitsPrefix(Tail(s), radix,
                      Some(radix * OrElse(acc, 0) + Get(DigitOfRadix(Head(s), radix))))

\* parseInt(string) without a radix: leading whitespace is skipped, a sign is
\* read, 0x or 0X selects radix 16, the digits up to the first other
\* character are read; NaN (null here) when there is no digit
parseInt(string) ==
    LET trimmed == TrimStart(string)
        negative == trimmed # <<>> /\ Head(trimmed) = "-"
        unsigned == IF trimmed # <<>> /\ Head(trimmed) \in {"+", "-"}
                    THEN Tail(trimmed) ELSE trimmed
        hex == Len(unsigned) >= 2 /\ unsigned[1] = "0" /\ unsigned[2] \in {"x", "X"}
        digits == IF hex THEN DigitsPrefix(Tail(Tail(unsigned)), 16, null)
                  ELSE DigitsPrefix(unsigned, 10, null)
    IN  IF digits = null THEN null
        ELSE IF negative THEN Some(0 - Get(digits)) ELSE digits

\* const { id, limit = '20' } = req.query: the default of a query without
\* limit
LimitOrDefault(limit) == IF limit = null THEN <<"2", "0">> ELSE Get(limit)

\* const limitNum = Math.min(parseInt(limit as string) || 20, 100)
LimitNum(limit) ==
    Min(OrElse(parseInt(LimitOrDefault(limit)), DEFAULT_LIMIT), MAX_LIMIT)

(***************************************************************************)
(* api/save-result.ts and api/history.ts: the handlers                     *)
(*                                                                         *)
(* A request is a record of requests, in the order of arrival.  A handler  *)
(* runs without interruption from one await to the next; every awaited     *)
(* call of the store either takes effect or throws, and an exception ends  *)
(* the request in the catch block with status 500.                         *)
(***************************************************************************)
\* the record stored under result:<id>; the url of the blob names its path
StoredResult(id) == [id |-> id, fileUrl |-> id]

\* res.status(status).json(...): the results listed, if any
Response(status, results) == [status |-> status, results |-> results]

\* the query of a request that has none
NoQuery == [id |-> [kind |-> "absent", value |-> 0], limit |-> null]

NewRequest(handler, method, body, query) ==
    [ handler |-> handler, method |-> method, body |-> body, query |-> query,
      pc |-> "received", id |-> 0, ids |-> <<>>, res |-> null,
      pushed |-> FALSE, trimmed |-> FALSE ]

\* the request answered
Responded(request, status, results) ==
    [request EXCEPT !.pc = "done", !.res = Some(Response(status, results))]

\* the ids of the save requests that are not answered yet
IdsInFlight ==
    { requests[i].id : i \in { j \in DOMAIN requests :
                                  /\ requests[j].handler = "save"
                                  /\ requests[j].pc \notin {"received", "done"} } }

\* every id generated so far
IdsGenerated ==
    DOMAIN kv.results \cup blobs
        \cup { requests[i].id : i \in DOMAIN requests } \cup {0}

\* proof-<Date.now()>-<six random characters>: an id not seen before, or,
\* within one millisecond and with the same random characters, the id of a
\* request that is still under way
GeneratedIds == {1 + SetMax(IdsGenerated)} \cup IdsInFlight

\* save-result.ts, lines 35-53: the handler up to its first await
SaveReceived(request, id) ==
    IF request.method # "POST" THEN Responded(request, 405, <<>>)
    \* destructuring a body that is undefined or null throws a TypeError
    ELSE IF request.body = null THEN Responded(request, 500, <<>>)
    ELSE IF \/ ~Get(request.body).fileName
            \/ ~Get(request.body).fileBase64
            \/ ~Get(request.body).result
         THEN Responded(request, 400, <<>>)
         ELSE [request EXCEPT !.pc = "put", !.id = id]

\* history.ts, lines 16-34: the handler up to its first await
HistoryReceived(request) ==
    IF request.method # "GET" THEN Responded(request, 405, <<>>)
    \* id && typeof id === 'string'
    ELSE IF request.query.id.kind = "string"
         THEN [request EXCEPT !.pc = "get"]
         ELSE [request EXCEPT !.pc = "lrange"]

\* a request arrives and its handler runs up to its first await
Arrives(request) ==
    /\ requests' = Append(requests, request)
    /\ UNCHANGED <<kv, blobs, pushLog>>

\* POST /api/save-result with a body, or another method
ReceiveSave(method, body) ==
    \E id \in GeneratedIds :
        Arrives(SaveReceived(NewRequest("save", method, body, NoQuery), id))

\* GET /api/history with a query, or another method
ReceiveHistory(method, query) ==
    Arrives(HistoryReceived(NewRequest("history", method, null, query)))

\* the catch block: res.status(500)
Fails(i) ==
    /\ requests' = [requests EXCEPT ![i] = Responded(@, 500, <<>>)]
    /\ UNCHANGED <<kv, blobs, pushLog>>

\* save-result.ts, lines 53-68: await put(...), then kv.set is called
SavePut(i) ==
    /\ requests[i].handler = "save" /\ requests[i].pc = "put"
    /\ \/ /\ blobs' = blobs \cup {requests[i].id}
          /\ requests' = [requests EXCEPT ![i].pc = "set"]
          /\ UNCHANGED <<kv, pushLog>>
       \/ Fails(i)

\* lines 68-71: await kv.set(...), then kv.lpush is called
SaveSet(i) ==
    /\ requests[i].handler = "save" /\ requests[i].pc = "set"
    /\ \/ /\ kv' = [kv EXCEPT !.results =
                         KvSet(@, requests[i].id, StoredResult(requests[i].id))]
          /\ requests' = [requests EXCEPT ![i].pc = "lpush"]
          /\ UNCHANGED <<blobs, pushLog>>
       \/ Fails(i)

\* lines 71-72: await kv.lpush('results:list', id), then kv.ltrim is called
SaveLpush(i) ==
    /\ requests[i].handler = "save" /\ requests[i].pc = "lpush"
    /\ \/ /\ kv' = [kv EXCEPT !.list = LPush(@, requests[i].id)]
          /\ pushLog' = Append(pushLog, requests[i].id)
          /\ requests' = [requests EXCEPT ![i].pc = "ltrim", ![i].pushed = TRUE]
          /\ UNCHANGED blobs
       \/ Fails(i)

\* lines 72-78: await kv.ltrim('results:list', 0, 99), then the answer
SaveLtrim(i) ==
    /\ requests[i].handler = "save" /\ requests[i].pc = "ltrim"
    /\ \/ /\ kv' = [kv EXCEPT !.list = LTrim(@, 0, LAST_KEPT_INDEX)]
          /\ requests' = [requests EXCEPT
                             ![i] = Responded([@ EXCEPT !.trimmed = TRUE], 200, <<>>)]
          /\ UNCHANGED <<blobs, pushLog>>
       \/ Fails(i)

\* history.ts, lines 25-29: await kv.get('result:' + id), then the answer
HistoryGet(i) ==
    /\ requests[i].handler = "history" /\ requests[i].pc = "get"
    /\ \/ /\ LET result == KvGet(kv.results, requests[i].query.id.value)
             IN  requests' = [requests EXCEPT ![i] =
                                 IF result = null THEN Responded(@, 404, <<>>)
                                 ELSE Responded(@, 200, <<Get(result)>>)]
          /\ UNCHANGED <<kv, blobs, pushLog>>
       \/ Fails(i)

\* lines 33-38: await kv.lrange('results:list', 0, limitNum - 1)
HistoryLrange(i) ==
    /\ requests[i].handler = "history" /\ requests[i].pc = "lrange"
    /\ \/ /\ LET ids == LRange(kv.list, 0, LimitNum(requests[i].query.limit) - 1)
             IN  requests' = [requests EXCEPT ![i] =
                                 IF ids = <<>> THEN Responded(@, 200, <<>>)
                                 ELSE [@ EXCEPT !.pc = "fetch", !.ids = ids]]
          /\ UNCHANGED <<kv, blobs, pushLog>>
       \/ Fails(i)

\* lines 41-47: the results of the ids that have a record, in the order of
\* the ids
FetchResults(results, ids) ==
    LET Stored(id) == KvGet(results, id) # null
        found == SelectSeq(ids, Stored)
    IN  [k \in 1..Len(found) |-> Get(KvGet(results, found[k]))]

\* lines 41-53: the loop of await kv.get(...) and the answer.  A record is
\* never removed or changed once an id is in the list, so the gets of one
\* loop return the same at whatever moment each is served: the loop is one
\* step.
HistoryFetch(i) ==
    /\ requests[i].handler = "history" /\ requests[i].pc = "fetch"
    /\ \/ /\ requests' = [requests EXCEPT ![i] =
                             Responded(@, 200, FetchResults(kv.results, requests[i].ids))]
          /\ UNCHANGED <<kv, blobs, pushLog>>
       \/ Fails(i)

(***************************************************************************)
(* PDFUploader.tsx and PDFProofreader: the upload page                     *)
(*                                                                         *)
(* A handler of an event, and a run of processFile from one await to the   *)
(* next, runs without interruption; the page is rendered again after it.   *)
(***************************************************************************)
\* useState('idle'), useState(''), useState(null), useState(null),
\* useState([]) of PDFProofreader
\* configured is what isGeminiConfigured() answers on this build
InitialPage ==
    [ status |-> "idle", statusMessage |-> [text |-> "", page |-> 0, of |-> 0],
      report |-> null, error |-> null, previewUrls |-> <<>>, configured |-> TRUE ]

\* useState(false), useState(null) of PDFUploader
InitialUploader == [isDragging |-> FALSE, selectedFile |-> null]

ACCEPTED_TYPES ==
    {"application/pdf", "image/jpeg", "image/jpg", "image/png", "image/webp",
     "image/gif"}

\* the types that start with 'image/'
IMAGE_TYPES ==
    {"image/jpeg", "image/jpg", "image/png", "image/webp", "image/gif",
     "image/bmp"}

\* PDFUploader.tsx: ACCEPTED_TYPES.includes(file.type) || file.type.startsWith('image/')
isValidFileType(file) == file.type \in ACCEPTED_TYPES \/ file.type \in IMAGE_TYPES

\* PDFProofreader: file.type.startsWith('image/')
isImageFile(file) == file.type \in IMAGE_TYPES

\* const isProcessing = status === 'converting' || status === 'analyzing' ||
\* status === 'validating'
IsProcessing(p) == p.status \in {"converting", "analyzing", "validating"}

\* const showSplitLayout = previewUrls.length > 0 && (report || isProcessing)
ShowSplitLayout(p) ==
    p.previewUrls # <<>> /\ (p.report # null \/ IsProcessing(p))

\* {!showSplitLayout && <PDFUploader ... />}
UploaderMounted(p) == ~ShowSplitLayout(p)

\* the button of handleReset is rendered: on the error card under the
\* uploader, or in the header of the preview panel
ResetOffered(p) ==
    \/ ~ShowSplitLayout(p) /\ p.error # null
    \/ ShowSplitLayout(p)

StatusMessage(text, pageNumber, total) ==
    [text |-> text, page |-> pageNumber, of |-> total]

\* createPreviewUrl(img) of every image of a run
PreviewsOf(run, totalPages) == [k \in 1..totalPages |-> [run |-> run, page |-> k]]

\* the page after an event or a step: a PDFUploader that is not rendered
\* loses its state, and is mounted anew with its initial state
Rendered(newPage, newUploader) ==
    /\ page' = newPage
    /\ uploader' = IF UploaderMounted(newPage) THEN newUploader ELSE InitialUploader

\* a run of processFile(file): where it is (pc), and what it has done so far
\*   sent            the pages handed to proofreadImageWithGemini, in order
\*   answered        how many of them were answered
\*   outcome         "" while the run is under way
\*   whileProcessing whether isProcessing was true when onFileSelect was invoked
NewRun(file, whileProcessing) ==
    [ file |-> file, pc |-> "start", totalPages |-> 0, sent |-> <<>>,
      answered |-> 0, validated |-> FALSE, reportSet |-> FALSE, outcome |-> "",
      whileProcessing |-> whileProcessing ]

InProgress(run) == run.pc # "done"

\* a mutation of the catch block: the status is left as it is
CaughtPage_StatusLeft(p) == [p EXCEPT !.error = Some("error")]

\* processFile, lines 133-138: the catch block
CaughtPage(p) ==
    [p EXCEPT !.error = Some("error"), !.status = "error",
              !.statusMessage = StatusMessage("error", 0, 0)]

Caught(run) == [run EXCEPT !.pc = "done", !.outcome = "error"]

\* lines 60-74: the previews are set, the analysis starts and the first page
\* is sent to proofreadImageWithGemini
AnalysisStarted(p, r, totalPages) ==
    [p EXCEPT !.previewUrls = PreviewsOf(r, totalPages),
              !.status = "analyzing",
              !.statusMessage = StatusMessage("analyzing", 1, totalPages)]

Analysing(run, totalPages) ==
    [run EXCEPT !.pc = "analyzing", !.totalPages = totalPages, !.sent = <<1>>]

\* lines 21-51: processFile(file) up to its first await
ProcessFileStarted(p, r, run) ==
    LET cleared == [p EXCEPT !.error = null, !.report = null, !.previewUrls = <<>>]
    IN  IF ~p.configured
        THEN <<[cleared EXCEPT !.error = Some("not configured")],
               [run EXCEPT !.pc = "done", !.outcome = "unconfigured"]>>
        ELSE IF isImageFile(run.file)
             THEN <<AnalysisStarted(cleared, r, 1), Analysing(run, 1)>>
             ELSE <<[cleared EXCEPT !.status = "converting",
                                    !.statusMessage = StatusMessage("converting", 0, 0)],
                    [run EXCEPT !.pc = "converting"]>>

\* PDFUploader.handleFileChange(file): a file of a valid type is selected and
\* handed to onFileSelect, which is processFile
HandleFileChange(file, newUploader) ==
    IF file # null /\ isValidFileType(Get(file))
    THEN LET r == Len(runs) + 1
             started == ProcessFileStarted(
                            page, r, NewRun(Get(file), IsProcessing(page)))
         IN  /\ Rendered(started[1], [newUploader EXCEPT !.selectedFile = file])
             /\ runs' = Append(runs, started[2])
    ELSE /\ Rendered(page, newUploader)
         /\ UNCHANGED runs

\* handleClick opens the file dialog unless isProcessing, and handleInputChange
\* takes e.target.files?.[0] || null
ClickAndChoose(file) ==
    /\ UploaderMounted(page)
    /\ ~IsProcessing(page)
    /\ HandleFileChange(file, uploader)

\* handleDrop: setIsDragging(false), then handleFileChange of
\* e.dataTransfer.files[0]
Drop(file) ==
    /\ UploaderMounted(page)
    /\ HandleFileChange(file, [uploader EXCEPT !.isDragging = FALSE])

\* handleDragOver
DragOver ==
    /\ UploaderMounted(page)
    /\ Rendered(page, [uploader EXCEPT !.isDragging = TRUE])
    /\ UNCHANGED runs

\* handleDragLeave
DragLeave ==
    /\ UploaderMounted(page)
    /\ Rendered(page, [uploader EXCEPT !.isDragging = FALSE])
    /\ UNCHANGED runs

\* the button under the upload area: setSelectedFile(null)
ChooseAnother ==
    /\ UploaderMounted(page)
    /\ uploader.selectedFile # null
    /\ ~IsProcessing(page)
    /\ Rendered(page, [uploader EXCEPT !.selectedFile = null])
    /\ UNCHANGED runs

\* handleReset
HandleReset ==
    /\ ResetOffered(page)
    /\ Rendered([page EXCEPT !.previewUrls = <<>>, !.status = "idle",
                             !.statusMessage = StatusMessage("", 0, 0),
                             !.report = null, !.error = null],
                uploader)
    /\ UNCHANGED runs

\* lines 51-74: pdfToImages(file) answers; without success or without images
\* the run throws
ConversionDone(r, success, images) ==
    /\ runs[r].pc = "converting"
    /\ IF success /\ images > 0
       THEN /\ Rendered(AnalysisStarted(page, r, images), uploader)
            /\ runs' = [runs EXCEPT ![r] = Analysing(@, images)]
       ELSE /\ Rendered(CaughtPage(page), uploader)
            /\ runs' = [runs EXCEPT ![r] = Caught(@)]

\* lines 93-131: the dates are validated, the report is made and set, and
\* the status is 'completed'; nothing is awaited in between
CompletedPage(p, run) ==
    [p EXCEPT !.report = Some([fileName |-> run.file.name, pages |-> run.totalPages]),
              !.status = "completed",
              !.statusMessage = StatusMessage("completed", 0, 0)]

\* lines 74-131: proofreadImageWithGemini(images[i]) answers; without success
\* the run throws, otherwise the next page is sent, or the run completes
AnalysisDone(r, success) ==
    /\ runs[r].pc = "analyzing"
    /\ LET run == runs[r]
           answered == [run EXCEPT !.answered = @ + 1]
           next == Len(run.sent) + 1
       IN  IF ~success
           THEN /\ Rendered(CaughtPage(page), uploader)
                /\ runs' = [runs EXCEPT ![r] = Caught(answered)]
           ELSE IF next <= run.totalPages
                THEN /\ Rendered([page EXCEPT !.statusMessage =
                                      StatusMessage("analyzing", next, run.totalPages)],
                                 uploader)
                     /\ runs' = [runs EXCEPT ![r] =
                                     [answered EXCEPT !.sent = Append(@, next)]]
                ELSE /\ Rendered(CompletedPage(page, run), uploader)
                     /\ runs' = [runs EXCEPT ![r] =
                                     [answered EXCEPT !.pc = "done", !.validated = TRUE,
                                                      !.reportSet = TRUE,
                                                      !.outcome = "completed"]]

(***************************************************************************)
(* The parts of the system a specification leaves alone                    *)
(***************************************************************************)
\* the store before the first save, and no request
ServerAtRest ==
    /\ kv = [results |-> <<>>, list |-> <<>>]
    /\ blobs = {}
    /\ requests = <<>>
    /\ pushLog = <<>>

\* the page as it is loaded, and no file chosen yet
PageAtRest ==
    /\ page = InitialPage
    /\ uploader = InitialUploader
    /\ runs = <<>>

\* no call of the parsers and the validator under way
NoCall ==
    /\ args = null
    /\ op = "none"
    /\ ret = null

(***************************************************************************)
(* Bounded inputs                                                          *)
(***************************************************************************)
\* the longest numeral token drawn character by character
MaxLen == 3
\* the most whitespace-separated tokens of a Hebrew date phrase
MaxTokens == 2
\* the most memorial entries of one report
MaxMemorials == 2
\* the most calls of one session
MaxCalls == 3
\* the most requests the two handlers receive
MaxRequests == 2
\* the most pages of one PDF
MaxPages == 2
\* the most files handed to processFile
MaxFiles == 2

\* all strings of at most n characters over an alphabet
RECURSIVE StringsUpTo(_, _)
StringsUpTo(alphabet, n) ==
    IF n = 0 THEN {<<>>}
    ELSE LET shorter == StringsUpTo(alphabet, n - 1)
         IN  shorter \cup {Append(s, c) : s \in shorter, c \in alphabet}

\* all sequences of at most n elements of S
SeqsUpTo(S, n) == UNION {[1..k -> S] : k \in 0..n}

\* tokens separated by single spaces
RECURSIVE Join(_)
Join(tokens) ==
    IF tokens = <<>> THEN <<>>
    ELSE IF Len(tokens) = 1 THEN tokens[1]
         ELSE tokens[1] \o <<" ">> \o Join(Tail(tokens))

\* an empty token of the vocabulary gives leading, trailing and doubled spaces
Phrases(vocabulary, n) == {Join(t) : t \in SeqsUpTo(vocabulary, n)}

\* letters of every decade, a final form, every mark of the character class,
\* whitespace and characters that are no Hebrew letter
NumeralAlphabet ==
    {"alef", "he", "yod", "kaf_s", "pe", "shin", "tav",
     "'", "\"", "gershayim", "geresh", "backtick", " ", "a", "1"}

\* the examples of the function's documentation
NumeralExamples ==
    { <<"he", "'", "tav", "shin", "pe", "\"", "he">>,
      <<"yod", "\"", "alef">>,
      <<"tav", "shin", "ayin", "\"", "tet">>,
      <<"kaf", "\"", "gimel">>,
      <<"mem_s", "nun_s", "pe_s", "tsadi_s">> }

NumeralInputs == StringsUpTo(NumeralAlphabet, MaxLen) \cup NumeralExamples

\* The usual way of writing the day n of a month in letters: one letter and
\* a geresh, or two letters with gershayim between them (15 and 16 are
\* written 9+6 and 9+7).
UNIT_LETTERS == <<"alef", "bet", "gimel", "dalet", "he", "vav", "zayin", "het", "tet">>

DayToken(n) ==
    IF n <= 9 THEN <<UNIT_LETTERS[n], "'">>
    ELSE IF n = 10 THEN <<"yod", "'">>
    ELSE IF n = 15 THEN <<"tet", "\"", "vav">>
    ELSE IF n = 16 THEN <<"tet", "\"", "zayin">>
    ELSE IF n <= 19 THEN <<"yod", "\"", UNIT_LETTERS[n - 10]>>
    ELSE IF n = 20 THEN <<"kaf", "'">>
    ELSE IF n <= 29 THEN <<"kaf", "\"", UNIT_LETTERS[n - 20]>>
    ELSE <<"lamed", "'">>

DayTokens == {DayToken(n) : n \in 1..30}

\* the month names of the table that are one token
MonthTokens ==
    { HEBREW_MONTHS[i][1] : i \in { j \in 1..Len(HEBREW_MONTHS) :
                                      ~Includes(HEBREW_MONTHS[j][1], <<" ">>) } }

\* day and month in both orders
DayMonthPhrases ==
    {Join(<<d, m>>) : d \in DayTokens, m \in MonthTokens}
    \cup {Join(<<m, d>>) : d \in DayTokens, m \in MonthTokens}

ParserVocabulary ==
    { <<>>,
      \* days: 1, 2, 5, 10 (bare letter), 11, 15, 30, and 31
      DayToken(1), DayToken(2), DayToken(5), <<"yod">>, DayToken(11),
      DayToken(15), DayToken(30), <<"lamed", "\"", "alef">>,
      \* months, and a month merged with its preposition
      <<"nun", "yod", "samekh", "nun_s">>, <<"samekh", "yod", "vav", "nun_s">>,
      <<"alef", "bet">>, <<"alef", "dalet", "resh">>,
      <<"bet", "tet", "bet", "tav">>,
      \* years: 5779, 5780 (gershayim), 300 alone, 120 without Tav or Shin,
      \* 1200
      <<"tav", "shin", "ayin", "\"", "tet">>, <<"tav", "shin", "gershayim", "pe">>,
      <<"shin">>, <<"qof", "kaf">>, <<"tav", "tav", "tav">>,
      \* the skipped prefixes
      <<"bet">>, <<"lamed">>, <<"nun", "pe", "'">>,
      \* neither month nor numeral
      <<"a">>, <<"1", "2">> }

\* a prefix or an unknown word between two tokens that contribute
PrefixedPhrases ==
    LET contributing == { DayToken(11),
                          <<"samekh", "yod", "vav", "nun_s">>,
                          <<"tav", "shin", "ayin", "\"", "tet">> }
        idle == { <<"bet">>, <<"lamed">>, <<"nun", "pe", "'">>, <<"a">> }
    IN  {Join(<<a, x, b>>) : a \in contributing, x \in idle, b \in contributing}

\* single tokens of Tav, Shin, a small letter and a mark
TavShinTokens == StringsUpTo({"tav", "shin", "alef", "\""}, MaxLen)

ParserInputs ==
    Phrases(ParserVocabulary, MaxTokens) \cup DayMonthPhrases
        \cup PrefixedPhrases \cup TavShinTokens

\* letters of the month names, a mark, whitespace, Latin letters
MonthAlphabet == {"alef", "bet", "dalet", "resh", "samekh", "'", " ", "A"}

\* every key of the table, bare and surrounded by whitespace; a name merged
\* with its preposition, a truncated name, a name followed by a comma;
\* property names that HEBREW_MONTHS inherits
MonthExamples ==
    { HEBREW_MONTHS[i][1] : i \in 1..Len(HEBREW_MONTHS) }
    \cup { <<" ">> \o HEBREW_MONTHS[i][1] \o <<"\n">> : i \in 1..Len(HEBREW_MONTHS) }
    \cup { <<"bet", "tet", "bet", "tav">>, <<"samekh", "yod", "vav">>,
           <<"alef", "lamed", "vav", "lamed", ",">>,
           <<"kaf", "samekh", "lamed">>, <<"shin">>,
           <<"c", "o", "n", "s", "t", "r", "u", "c", "t", "o", "r">>,
           <<"t", "o", "S", "t", "r", "i", "n", "g">>,
           <<"T", "o", "S", "t", "r", "i", "n", "g">> }

MonthInputs == StringsUpTo(MonthAlphabet, MaxLen) \cup MonthExamples

ValidatorVocabulary ==
    { <<>>, DayToken(11),
      <<"samekh", "yod", "vav", "nun_s">>,
      <<"tav", "shin", "ayin", "\"", "tet">>, <<"tav", "shin", "gershayim", "pe">>,
      <<"a">> }

\* a year after a word that names an inherited property of the month table,
\* and a numeral of twenty-five Tav (25 * 400 = 10000)
HebrewDateExamples ==
    { Join(<< <<"c", "o", "n", "s", "t", "r", "u", "c", "t", "o", "r">>,
              <<"tav", "shin", "ayin", "\"", "tet">> >>),
      [k \in 1..25 |-> "tav"] }

HebrewDateInputs == Phrases(ValidatorVocabulary, MaxTokens) \cup HebrewDateExamples

GregorianInputs ==
    { <<>>,
      <<"2", "0", "1", "8">>, <<"2", "0", "1", "9">>, <<"2", "0", "2", "0">>,
      <<"2", "0", "2", "1">>, <<"1", "9", "9", "0">>,
      <<"1", "9", "3", "8", " ", "-", " ", "2", "0", "1", "9">>,
      <<"2", "0", "1", "9", " ", "1", "9", "3", "8">>,
      <<"1", "2", "0", "1", "9">>,
      <<"1", "8", "9", "9", " ", "1", "9", "0", "0", " ",
        "2", "0", "9", "9", " ", "2", "1", "0", "0">>,
      <<"nun", "pe", "tet", "resh">> }

\* years of both centuries, numbers that are no year of them, a year glued
\* to Latin and to Hebrew letters, a dash
YearVocabulary ==
    { <<>>, <<"1", "9", "3", "8">>, <<"1", "9", "9", "0">>, <<"2", "0", "1", "9">>,
      <<"2", "0", "9", "9">>, <<"1", "8", "9", "9">>, <<"1", "2", "0", "1", "9">>,
      <<"a", "2", "0", "1", "9">>, <<"bet", "2", "0", "0", "0">>, <<"-">> }

YearExamples ==
    { <<"1", "9", "3", "8", "-", "2", "0", "1", "9">>,
      <<"2", "0", "1", "9", "1", "9", "3", "8">>,
      <<"(", "2", "0", "1", "9", ")">>,
      <<"2", "0", "1", "9", "_", "1", "9", "3", "8">>,
      <<"1", "9", "3", "8", ".", "2", "0", "1", "9", ".">> }

\* one token more than a date phrase: up to three years in a text
YearInputs == Phrases(YearVocabulary, MaxTokens + 1) \cup YearExamples

\* what the calendar collaborator may do during one call; when new HDate(...)
\* throws, nothing else of the collaborator is read, so one such calendar is
\* enough
Calendars ==
    { c \in [ hdate : {"ok", "throw"}, offset : {3760, 3761}, month : {5, 11},
              date : {14}, fromGreg : {"ok", "throw"} ] :
        c.hdate = "throw" => (c.offset = 3760 /\ c.month = 5 /\ c.fromGreg = "ok") }

\* the inputs of the calls of a session: a phrase whose first token is
\* resolved by the partial match over the table, and a full date
SessionHebrewInputs ==
    { <<"alef">>,
      Join(<<DayToken(11), <<"samekh", "yod", "vav", "nun_s">>,
             <<"tav", "shin", "ayin", "\"", "tet">>>>) }

SessionGregorianInputs ==
    { <<"1", "9", "9", "0">>,
      <<"2", "0", "1", "9", " ", "1", "9", "3", "8">> }

SessionCalendars ==
    { [hdate |-> "ok", offset |-> 3760, month |-> 5, date |-> 14, fromGreg |-> "ok"],
      [hdate |-> "ok", offset |-> 3760, month |-> 5, date |-> 14, fromGreg |-> "throw"] }

MemorialEntries ==
    [ name : {Some("Sara"), Some("David")},
      hebrewDeathDate : { null, Some(<<>>),
                          Some(Join(<<DayToken(11), <<"samekh", "yod", "vav", "nun_s">>,
                                      <<"tav", "shin", "ayin", "\"", "tet">>>>)),
                          Some(<<"tav", "shin", "gershayim", "pe">>) },
      gregorianYears : { null, Some(<<"2", "0", "1", "9">>),
                         Some(<<"1", "9", "9", "0">>) } ]

MemorialCalendars ==
    { [hdate |-> "ok", offset |-> 3760, month |-> 5, date |-> 14, fromGreg |-> "ok"],
      [hdate |-> "throw", offset |-> 3760, month |-> 5, date |-> 14, fromGreg |-> "ok"] }

\* the store after n requests were saved one after the other: the ids 1..n,
\* the newest first in the list
StoreAfter(n) ==
    [ results |-> [id \in 1..n |-> StoredResult(id)],
      list |-> [k \in 1..n |-> n + 1 - k] ]

\* an empty store, a store of one result, and stores one save below the kept
\* length and at it
SavedAtStart == {0, 1, LAST_KEPT_INDEX, LAST_KEPT_INDEX + 1}

\* no body (undefined, or the JSON literal null), and bodies with each of
\* the three required fields present or missing
SaveBodies ==
    {null} \cup { Some([fileName |-> a, fileBase64 |-> b, result |-> c]) :
                    a \in BOOLEAN, b \in BOOLEAN, c \in BOOLEAN }

\* the id of a query: none, the empty string, a repeated parameter (an
\* array), the id of the oldest stored result, an id that was never stored
IdQueries ==
    { [kind |-> "absent", value |-> 0], [kind |-> "empty", value |-> 0],
      [kind |-> "array", value |-> 1],
      [kind |-> "string", value |-> 1], [kind |-> "string", value |-> 0] }

\* a body with the three required fields
FullBody == Some([fileName |-> TRUE, fileBase64 |-> TRUE, result |-> TRUE])

\* the requests to save-result that are served concurrently: a result to
\* save, a body without result, no body, another method
ServerSaveRequests ==
    { <<"POST", FullBody>>,
      <<"POST", Some([fileName |-> TRUE, fileBase64 |-> TRUE, result |-> FALSE])>>,
      <<"POST", null>>,
      <<"GET", FullBody>> }

\* the requests to history that are served concurrently: the list with the
\* default limit and with the limit 2, a stored result, an unknown id,
\* another method
ServerHistoryRequests ==
    { <<"GET", NoQuery>>,
      <<"GET", [id |-> [kind |-> "absent", value |-> 0], limit |-> Some(<<"2">>)]>>,
      <<"GET", [id |-> [kind |-> "string", value |-> 1], limit |-> null]>>,
      <<"GET", [id |-> [kind |-> "string", value |-> 0], limit |-> null]>>,
      <<"POST", NoQuery>> }

LimitAlphabet == {"0", "1", "5", "-", "a"}

LimitExamples ==
    { <<"2", "0">>, <<"9", "9">>, <<"1", "0", "0">>, <<"1", "5", "0">>,
      <<"1", "0", "0", "0">>, <<"0", "x", "1", "0">>, <<"1", "e", "3">>,
      <<"2", ".", "5">>, <<" ", "7">>, <<"+", "3">>, <<"a", "b", "c">> }

\* no limit, and limits written as strings
LimitInputs ==
    {null} \cup { Some(limit) : limit \in StringsUpTo(LimitAlphabet, MaxLen)
                                           \cup LimitExamples }

\* the queries of GET /api/history: a list with every limit, a single
\* result by its id
HistoryQueries ==
    { [id |-> q, limit |-> limit] :
        q \in { i \in IdQueries : i.kind # "string" }, limit \in LimitInputs }
        \cup { [id |-> q, limit |-> null] : q \in { i \in IdQueries : i.kind = "string" } }

\* stores of no, one, 21 and 100 saved results
HistoryAtStart == {0, 1, DEFAULT_LIMIT + 1, MAX_LIMIT}

(***************************************************************************)
(* Specification of the numeral decoder                                    *)
(***************************************************************************)
InitDecoder ==
    /\ args \in [hebrewNum : NumeralInputs]
    /\ op = "none"
    /\ ret = null
    /\ ServerAtRest /\ PageAtRest

CallHebrewNumeralToInt ==
    /\ op = "none"
    /\ op' = "hebrewNumeralToInt"
    /\ ret' = hebrewNumeralToInt(args.hebrewNum)
    /\ UNCHANGED args
    /\ UNCHANGED <<serverVars, pageVars>>

CallParseHebrewYear ==
    /\ op = "none"
    /\ op' = "parseHebrewYear"
    /\ ret' = parseHebrewYear(args.hebrewNum)
    /\ UNCHANGED args
    /\ UNCHANGED <<serverVars, pageVars>>

NextDecoder == CallHebrewNumeralToInt \/ CallParseHebrewYear

SpecDecoder == InitDecoder /\ [][NextDecoder]_vars

(***************************************************************************)
(* Specification of the month resolver                                     *)
(***************************************************************************)
InitMonth ==
    /\ args \in [monthStr : MonthInputs]
    /\ op = "none"
    /\ ret = null
    /\ ServerAtRest /\ PageAtRest

CallParseHebrewMonth ==
    /\ op = "none"
    /\ op' = "parseHebrewMonth"
    /\ ret' = parseHebrewMonth(args.monthStr)
    /\ UNCHANGED args
    /\ UNCHANGED <<serverVars, pageVars>>

NextMonth == CallParseHebrewMonth

SpecMonth == InitMonth /\ [][NextMonth]_vars

(***************************************************************************)
(* Specification of the extraction of Gregorian years                      *)
(***************************************************************************)
InitYears ==
    /\ args \in [text : YearInputs]
    /\ op = "none"
    /\ ret = null
    /\ ServerAtRest /\ PageAtRest

CallExtractGregorianYears ==
    /\ op = "none"
    /\ op' = "extractGregorianYears"
    /\ ret' = extractGregorianYears(args.text)
    /\ UNCHANGED args
    /\ UNCHANGED <<serverVars, pageVars>>

NextYears == CallExtractGregorianYears

SpecYears == InitYears /\ [][NextYears]_vars

(***************************************************************************)
(* Specification of the date parser                                        *)
(***************************************************************************)
InitParser ==
    /\ args \in [dateStr : ParserInputs]
    /\ op = "none"
    /\ ret = null
    /\ ServerAtRest /\ PageAtRest

CallParseHebrewDate ==
    /\ op = "none"
    /\ op' = "parseHebrewDate"
    /\ ret' = parseHebrewDate(args.dateStr)
    /\ UNCHANGED args
    /\ UNCHANGED <<serverVars, pageVars>>

NextParser == CallParseHebrewDate

SpecParser == InitParser /\ [][NextParser]_vars

(***************************************************************************)
(* Specification of the consistency validator                              *)
(***************************************************************************)
InitValidator ==
    /\ args \in [ hebrewDateStr : HebrewDateInputs,
                  gregorianYearStr : GregorianInputs,
                  cal : Calendars ]
    /\ op = "none"
    /\ ret = null
    /\ ServerAtRest /\ PageAtRest

CallValidateDateConsistency ==
    /\ op = "none"
    /\ op' = "validateDateConsistency"
    /\ ret' = validateDateConsistency(args.hebrewDateStr, args.gregorianYearStr,
                                      args.cal)
    /\ UNCHANGED args
    /\ UNCHANGED <<serverVars, pageVars>>

NextValidator == CallValidateDateConsistency

SpecValidator == InitValidator /\ [][NextValidator]_vars

(***************************************************************************)
(* Specification of the validation of a list of memorial entries           *)
(***************************************************************************)
InitMemorials ==
    /\ args \in [ memorials : SeqsUpTo(MemorialEntries, MaxMemorials),
                  cal : MemorialCalendars ]
    /\ op = "none"
    /\ ret = null
    /\ ServerAtRest /\ PageAtRest

\* validateAllDates on the entries, their Hebrew date passed as hebrewDate
CallValidateAllDates ==
    /\ op = "none"
    /\ op' = "validateAllDates"
    /\ ret' = validateAllDates(
                 [i \in 1..Len(args.memorials) |->
                     [ hebrewDate |-> args.memorials[i].hebrewDeathDate,
                       gregorianYears |-> args.memorials[i].gregorianYears,
                       name |-> args.memorials[i].name ]],
                 args.cal)
    /\ UNCHANGED args
    /\ UNCHANGED <<serverVars, pageVars>>

\* steps 3 and 4 of processFile and the report's date section: the
\* validations, and the panels drawn from the report
CallProcessFileValidation ==
    /\ op = "none"
    /\ op' = "processFile"
    /\ \E dateValidations \in {ProcessFileValidateDates(args.memorials, args.cal)} :
           ret' = IF dateValidations.kind = "throw" THEN Throw
                  ELSE Return([ memorials |-> args.memorials,
                                dateValidation |-> dateValidations.value,
                                panels |-> DateValidationPanels(
                                               args.memorials,
                                               dateValidations.value) ])
    /\ UNCHANGED args
    /\ UNCHANGED <<serverVars, pageVars>>

NextMemorials == CallValidateAllDates \/ CallProcessFileValidation

SpecMemorials == InitMemorials /\ [][NextMemorials]_vars

(***************************************************************************)
(* Specification of a session: the three functions called one after the    *)
(* other, in any order, on any inputs.  args.log is the list of the calls  *)
(* made so far, each with its input and its output.                        *)
(***************************************************************************)
InitSession ==
    /\ args = [log |-> <<>>]
    /\ op = "none"
    /\ ret = null
    /\ ServerAtRest /\ PageAtRest

Logged(fn, input, output) ==
    /\ Len(args.log) < MaxCalls
    /\ op' = fn
    /\ ret' = output
    /\ args' = [log |-> Append(args.log,
                               [fn |-> fn, input |-> input, output |-> output])]
    /\ UNCHANGED <<serverVars, pageVars>>

SessionParseHebrewDate ==
    \E dateStr \in SessionHebrewInputs :
        \E output \in {parseHebrewDate(dateStr)} :
            Logged("parseHebrewDate", <<dateStr>>, output)

SessionExtractGregorianYears ==
    \E text \in SessionGregorianInputs :
        \E output \in {extractGregorianYears(text)} :
            Logged("extractGregorianYears", <<text>>, output)

SessionValidateDateConsistency ==
    \E hebrewDateStr \in SessionHebrewInputs,
       gregorianYearStr \in SessionGregorianInputs, cal \in SessionCalendars :
        \E output \in {validateDateConsistency(hebrewDateStr, gregorianYearStr, cal)} :
            Logged("validateDateConsistency",
                   <<hebrewDateStr, gregorianYearStr, cal>>, output)

NextSession ==
    \/ SessionParseHebrewDate
    \/ SessionExtractGregorianYears
    \/ SessionValidateDateConsistency

SpecSession == InitSession /\ [][NextSession]_vars

(***************************************************************************)
(* Specification of the two api handlers: requests arrive at any moment    *)
(* and are served concurrently, each step of a handler running to its next *)
(* await                                                                   *)
(***************************************************************************)
\* the store holds the results saved so far
InitServer ==
    /\ \E n \in SavedAtStart :
          /\ kv = StoreAfter(n)
          /\ blobs = 1..n
          /\ pushLog = [k \in 1..n |-> k]
    /\ requests = <<>>
    /\ NoCall /\ PageAtRest

ServerReceiveSave ==
    /\ Len(requests) < MaxRequests
    /\ \E request \in ServerSaveRequests : ReceiveSave(request[1], request[2])
    /\ UNCHANGED <<callVars, pageVars>>

ServerReceiveHistory ==
    /\ Len(requests) < MaxRequests
    /\ \E request \in ServerHistoryRequests : ReceiveHistory(request[1], request[2])
    /\ UNCHANGED <<callVars, pageVars>>

StepSavePut ==
    /\ \E i \in DOMAIN requests : SavePut(i)
    /\ UNCHANGED <<callVars, pageVars>>

StepSaveSet ==
    /\ \E i \in DOMAIN requests : SaveSet(i)
    /\ UNCHANGED <<callVars, pageVars>>

StepSaveLpush ==
    /\ \E i \in DOMAIN requests : SaveLpush(i)
    /\ UNCHANGED <<callVars, pageVars>>

StepSaveLtrim ==
    /\ \E i \in DOMAIN requests : SaveLtrim(i)
    /\ UNCHANGED <<callVars, pageVars>>

StepHistoryGet ==
    /\ \E i \in DOMAIN requests : HistoryGet(i)
    /\ UNCHANGED <<callVars, pageVars>>

StepHistoryLrange ==
    /\ \E i \in DOMAIN requests : HistoryLrange(i)
    /\ UNCHANGED <<callVars, pageVars>>

StepHistoryFetch ==
    /\ \E i \in DOMAIN requests : HistoryFetch(i)
    /\ UNCHANGED <<callVars, pageVars>>

NextServer ==
    \/ ServerReceiveSave
    \/ ServerReceiveHistory
    \/ StepSavePut
    \/ StepSaveSet
    \/ StepSaveLpush
    \/ StepSaveLtrim
    \/ StepHistoryGet
    \/ StepHistoryLrange
    \/ StepHistoryFetch

SpecServer == InitServer /\ [][NextServer]_vars

(***************************************************************************)
(* Specification of POST /api/save-result: one request over a store        *)
(***************************************************************************)
InitSave ==
    /\ \E n \in SavedAtStart :
          /\ kv = StoreAfter(n)
          /\ blobs = 1..n
          /\ pushLog = [k \in 1..n |-> k]
    /\ requests = <<>>
    /\ NoCall /\ PageAtRest

SaveReceive ==
    /\ requests = <<>>
    /\ \E method \in {"POST", "GET", "PUT"}, body \in SaveBodies :
          ReceiveSave(method, body)
    /\ UNCHANGED <<callVars, pageVars>>

NextSave ==
    \/ SaveReceive
    \/ StepSavePut
    \/ StepSaveSet
    \/ StepSaveLpush
    \/ StepSaveLtrim

SpecSave == InitSave /\ [][NextSave]_vars

(***************************************************************************)
(* Specification of GET /api/history: one request over a store             *)
(***************************************************************************)
InitHistory ==
    /\ \E n \in HistoryAtStart :
          /\ kv = StoreAfter(n)
          /\ blobs = 1..n
          /\ pushLog = [k \in 1..n |-> k]
    /\ requests = <<>>
    /\ NoCall /\ PageAtRest

HistoryReceive ==
    /\ requests = <<>>
    /\ \E method \in {"GET", "POST"}, query \in HistoryQueries :
          ReceiveHistory(method, query)
    /\ UNCHANGED <<callVars, pageVars>>

NextHistory ==
    \/ HistoryReceive
    \/ StepHistoryGet
    \/ StepHistoryLrange
    \/ StepHistoryFetch

SpecHistory == InitHistory /\ [][NextHistory]_vars

\* the files offered to the uploader: a PDF, an image of a type that is not
\* listed, a file that is neither, and no file at all
ChosenFiles ==
    { Some([name |-> "stone.pdf", type |-> "application/pdf"]),
      Some([name |-> "stone.bmp", type |-> "image/bmp"]),
      Some([name |-> "notes.txt", type |-> "text/plain"]),
      null }

(***************************************************************************)
(* The upload page: files are chosen or dropped, and processFile runs      *)
(***************************************************************************)
InitPage ==
    /\ NoCall
    /\ ServerAtRest
    /\ \E configured \in BOOLEAN : page = [InitialPage EXCEPT !.configured = configured]
    /\ uploader = InitialUploader
    /\ runs = <<>>

PageClickAndChoose ==
    /\ Len(runs) < MaxFiles
    /\ \E file \in ChosenFiles : ClickAndChoose(file)
    /\ UNCHANGED <<callVars, serverVars>>

PageDrop ==
    /\ Len(runs) < MaxFiles
    /\ \E file \in ChosenFiles : Drop(file)
    /\ UNCHANGED <<callVars, serverVars>>

PageDragOver == DragOver /\ UNCHANGED <<callVars, serverVars>>

PageDragLeave == DragLeave /\ UNCHANGED <<callVars, serverVars>>

PageChooseAnother == ChooseAnother /\ UNCHANGED <<callVars, serverVars>>

PageHandleReset == HandleReset /\ UNCHANGED <<callVars, serverVars>>

PageConversionDone ==
    /\ \E r \in DOMAIN runs, success \in BOOLEAN, images \in 0..MaxPages :
           ConversionDone(r, success, images)
    /\ UNCHANGED <<callVars, serverVars>>

PageAnalysisDone ==
    /\ \E r \in DOMAIN runs, success \in BOOLEAN : AnalysisDone(r, success)
    /\ UNCHANGED <<callVars, serverVars>>

NextPage ==
    \/ PageClickAndChoose
    \/ PageDrop
    \/ PageDragOver
    \/ PageDragLeave
    \/ PageChooseAnother
    \/ PageHandleReset
    \/ PageConversionDone
    \/ PageAnalysisDone

SpecPage == InitPage /\ [][NextPage]_vars

(***************************************************************************)
(* Properties of validateDateConsistency (checked under SpecValidator)     *)
(***************************************************************************)
Validated == op = "validateDateConsistency"

\* What the two parsers yield for the arguments of the call, and what
\* follows from it:
\*   converts       hebrewToGregorian converts: the month has an index of the
\*                  calendar library and the library does not throw
\*   convertedYear  the Gregorian year the Hebrew year is converted to
\*   difference     between the converted year and the death year
\*   mismatch       the validation ends in the mismatch branch
FactsOfArgs ==
    LET parsed == parseHebrewDate(args.hebrewDateStr)
        deathYear == extractGregorianYears(args.gregorianYearStr).deathYear
        bothYears == parsed.year # null /\ deathYear # null
        converts == /\ parsed.month = null \/ IsNumber(parsed.month)
                    /\ args.cal.hdate = "ok"
        convertedYear == Get(parsed.year) - args.cal.offset
        difference == IF convertedYear >= Get(deathYear)
                      THEN convertedYear - Get(deathYear)
                      ELSE Get(deathYear) - convertedYear
    IN  [ day |-> parsed.day, month |-> parsed.month,
          hebrewYear |-> parsed.year, deathYear |-> deathYear,
          bothYears |-> bothYears, converts |-> converts,
          convertedYear |-> IF bothYears THEN Some(convertedYear) ELSE null,
          difference |-> IF bothYears THEN Some(difference) ELSE null,
          mismatch |-> bothYears /\ converts /\ difference >= 2 ]

HebrewYearOfArgs == FactsOfArgs.hebrewYear
DeathYearOfArgs == FactsOfArgs.deathYear
DayOfArgs == FactsOfArgs.day
MonthOfArgs == FactsOfArgs.month
BothYearsPresent == FactsOfArgs.bothYears
ConversionSucceeds == FactsOfArgs.converts
ConvertedYearOfArgs == Get(FactsOfArgs.convertedYear)
YearDifferenceOfArgs == Get(FactsOfArgs.difference)
MismatchOfArgs == FactsOfArgs.mismatch

\* C1: whenever parseHebrewDate yields no Hebrew year or extractGregorianYears
\* yields no death year, validateDateConsistency returns isConsistent = true;
\* isConsistent = false is never returned when either side is missing.
C1_MissingSideIsConsistent ==
    LET f == FactsOfArgs IN
    (Validated /\ ~f.bothYears)
        => (ret.kind = "return" /\ ret.value.isConsistent = TRUE)

\* a call with a death year and no Hebrew year has returned
C1_Witness ==
    /\ Validated
    /\ HebrewYearOfArgs = null /\ DeathYearOfArgs # null
    /\ ret.kind = "return" /\ ret.value.isConsistent

\* C2: with both years present and a successful conversion, isConsistent is
\* true if and only if the converted Gregorian year and the death year differ
\* by at most 1.
C2_ConsistentIffWithinOneYear ==
    LET f == FactsOfArgs IN
    (Validated /\ f.bothYears /\ f.converts)
        => /\ ret.kind = "return"
           /\ ret.value.isConsistent <=> (Get(f.difference) \in {0, 1})

\* a difference of exactly one year was found consistent
C2_Witness ==
    /\ Validated /\ BothYearsPresent /\ ConversionSucceeds
    /\ YearDifferenceOfArgs = 1
    /\ ret.kind = "return" /\ ret.value.isConsistent

\* C3: every result with isConsistent = false carries an expectedGregorianDate
\* built from the converted date (day/month/year, the month counted from 1)
\* and a discrepancyExplanation that contains the Hebrew input string, the
\* converted Gregorian year and the recorded death year.
C3_MismatchIsExplained ==
    LET f == FactsOfArgs IN
    (Validated /\ ret.kind = "return" /\ ~ret.value.isConsistent)
        => /\ f.bothYears
           /\ ret.value.expectedGregorianDate =
                  Some(NumberToString(args.cal.date) \o <<"/">>
                       \o NumberToString(args.cal.month + 1) \o <<"/">>
                       \o NumberToString(Get(f.convertedYear)))
           /\ ret.value.discrepancyExplanation # null
           /\ Includes(Get(ret.value.discrepancyExplanation), args.hebrewDateStr)
           /\ Includes(Get(ret.value.discrepancyExplanation),
                       NumberToString(Get(f.convertedYear)))
           /\ Includes(Get(ret.value.discrepancyExplanation),
                       NumberToString(Get(f.deathYear)))

\* a mismatch was returned
C3_Witness ==
    /\ Validated /\ ret.kind = "return" /\ ~ret.value.isConsistent
    /\ ret.value.expectedGregorianDate # null
    /\ YearDifferenceOfArgs >= 2

\* C4: with both years present and a conversion that fails (the month has no
\* index of the calendar library, or the library throws), the result is
\* isConsistent = true with the 'conversion not possible' explanation and no
\* expectedGregorianDate or expectedHebrewDate.
C4_UnconvertibleIsConsistent ==
    LET f == FactsOfArgs IN
    (Validated /\ f.bothYears /\ ~f.converts)
        => /\ ret.kind = "return"
           /\ ret.value.isConsistent = TRUE
           /\ ret.value.discrepancyExplanation = Some(MSG_CANNOT_CONVERT)
           /\ ret.value.expectedGregorianDate = null
           /\ ret.value.expectedHebrewDate = null

\* the calendar library threw during a call with both years present
C4_Witness ==
    /\ Validated /\ BothYearsPresent /\ args.cal.hdate = "throw"
    /\ ret.kind = "return" /\ ret.value.discrepancyExplanation = Some(MSG_CANNOT_CONVERT)

\* C5: in the insufficient-data branch the explanation names the missing side:
\* only the death year missing gives the 'no Gregorian year' message, only the
\* Hebrew year missing gives the 'no Hebrew year' message, both missing gives
\* no explanation.
C5_ExplanationNamesMissingSide ==
    LET f == FactsOfArgs IN
    (Validated /\ ~f.bothYears)
        => /\ ret.kind = "return"
           /\ ret.value.discrepancyExplanation =
                  IF f.hebrewYear # null THEN Some(MSG_NO_GREGORIAN_YEAR)
                  ELSE IF f.deathYear # null THEN Some(MSG_NO_HEBREW_YEAR)
                  ELSE null

\* a call with a Hebrew year and no death year has returned
C5_Witness ==
    /\ Validated
    /\ HebrewYearOfArgs # null /\ DeathYearOfArgs = null
    /\ ret.kind = "return" /\ ret.value.discrepancyExplanation # null

\* C6: validateDateConsistency never raises and always ends with a well-formed
\* DateValidationResult (hebrewDate, gregorianDate, a boolean isConsistent),
\* for every pair of inputs and every behaviour of the calendar collaborator.
C6_AlwaysReturnsWellFormed ==
    /\ op = "none" => ENABLED CallValidateDateConsistency
    /\ Validated =>
          /\ ret.kind = "return"
          /\ {"hebrewDate", "gregorianDate", "isConsistent"} \subseteq DOMAIN ret.value
          /\ ret.value.isConsistent \in BOOLEAN
          /\ ret.value.hebrewDate # null /\ ret.value.gregorianDate # null
          /\ "rawText" \in DOMAIN ret.value.hebrewDate
          /\ "rawText" \in DOMAIN ret.value.gregorianDate

\* a mismatch was returned although the collaborator threw while converting
\* the death year back to the Hebrew calendar
C6_Witness ==
    /\ Validated /\ BothYearsPresent
    /\ args.cal.hdate = "ok" /\ args.cal.fromGreg = "throw"
    /\ ret.kind = "return" /\ ~ret.value.isConsistent
    /\ ret.value.expectedHebrewDate = null

(***************************************************************************)
(* Properties of the validation of a list (checked under SpecMemorials)    *)
(***************************************************************************)
\* the validation of the dates of one memorial entry
ValidationOf(memorial) ==
    validateDateConsistency(StrOrEmpty(memorial.hebrewDeathDate),
                            StrOrEmpty(memorial.gregorianYears), args.cal).value

\* the list of validations a call returned
ReturnedValidations ==
    IF op = "processFile" THEN ret.value.dateValidation ELSE ret.value

\* C7: the output sequence is index-aligned with the input: result[i] is the
\* validation of memorial[i], so the name shown beside dateValidation[i]
\* (memorials[i].name) is that of the person whose dates were validated.
C7_ResultsIndexAligned ==
    (op \in {"validateAllDates", "processFile"} /\ ret.kind = "return")
        => /\ \A i \in 1..Len(ReturnedValidations) :
                  ReturnedValidations[i] = ValidationOf(args.memorials[i])
           /\ op = "processFile" =>
                  \A i \in 1..Len(ret.value.panels) :
                      /\ ret.value.panels[i].personName = args.memorials[i].name
                      /\ ret.value.panels[i].validation =
                             ValidationOf(args.memorials[i])

(***************************************************************************)
(* Properties of parseHebrewDate (checked under SpecParser)                *)
(***************************************************************************)
Parsed == op = "parseHebrewDate"

\* C8: for every day token (1..30) and every month token of the table,
\* parseHebrewDate recovers the same (day, month) pair from 'day month' as
\* from 'month day'.
C8_DayMonthOrderIndependent ==
    Parsed =>
        \A d \in DayTokens, m \in MonthTokens :
            args.dateStr = Join(<<d, m>>) =>
                LET swapped == parseHebrewDate(Join(<<m, d>>))
                IN  ret.day = swapped.day /\ ret.month = swapped.month

\* The tokens of the phrase that reach numeral decoding: not a skipped prefix,
\* not resolved as a month, and decoded to a value.
PartsOfArgs == SplitWhitespace(args.dateStr)
NumeralParts ==
    { i \in 1..Len(PartsOfArgs) :
        /\ PartsOfArgs[i] \notin SKIPPED_PREFIXES
        /\ parseHebrewMonth(PartsOfArgs[i]) = null
        /\ hebrewNumeralToInt(PartsOfArgs[i]) # null }
ValueOfPart(i) == Get(hebrewNumeralToInt(PartsOfArgs[i]))
HasTavOrShin(token) == \E k \in 1..Len(token) : token[k] \in {"tav", "shin"}
YearParts ==
    { i \in NumeralParts : ValueOfPart(i) > 31 \/ HasTavOrShin(PartsOfArgs[i]) }
DayParts ==
    { i \in NumeralParts \ YearParts : ValueOfPart(i) >= 1 /\ ValueOfPart(i) <= 30 }

\* C10: a token that reaches numeral decoding with value v is a year if
\* v > 31 or it contains Tav or Shin; otherwise a day if 1 <= v <= 30; a token
\* with v = 31 and no Tav/Shin sets neither.  A phrase whose numeral tokens
\* all fail the year rule yields year = null even when a day was set.
C10_YearAndDayClassification ==
    Parsed =>
        /\ ret.year # null <=> YearParts # {}
        /\ ret.day # null <=> DayParts # {}
        /\ ret.day # null => \E i \in DayParts : Get(ret.day) = ValueOfPart(i)
        /\ (Len(PartsOfArgs) = 1 /\ NumeralParts = {1}
              /\ ValueOfPart(1) = 31 /\ ~HasTavOrShin(PartsOfArgs[1]))
             => (ret.day = null /\ ret.year = null)

\* day 11 and a token of value 31: the day is set and the year is not
C10_Witness ==
    /\ Parsed
    /\ Cardinality(NumeralParts) = 2 /\ YearParts = {}
    /\ \E i \in NumeralParts : ValueOfPart(i) = 31
    /\ ret.day = Some(11) /\ ret.year = null

(***************************************************************************)
(* Properties of hebrewNumeralToInt (checked under SpecDecoder)            *)
(***************************************************************************)
Decoded == op = "hebrewNumeralToInt"

\* the 22 letters in alphabetical order, and each final form's letter
ALEPH_BET ==
    <<"alef", "bet", "gimel", "dalet", "he", "vav", "zayin", "het", "tet",
      "yod", "kaf", "lamed", "mem", "nun", "samekh", "ayin", "pe", "tsadi",
      "qof", "resh", "shin", "tav">>
FINAL_FORMS ==
    [kaf_s |-> "kaf", mem_s |-> "mem", nun_s |-> "nun", pe_s |-> "pe",
     tsadi_s |-> "tsadi"]

\* the standard value: the units 1..9, the tens 10..90, the hundreds 100..400
StandardValue(letter) ==
    LET plain == IF letter \in DOMAIN FINAL_FORMS THEN FINAL_FORMS[letter] ELSE letter
        rank == CHOOSE r \in 1..22 : ALEPH_BET[r] = plain
    IN  IF rank <= 9 THEN rank
        ELSE IF rank <= 18 THEN (rank - 9) * 10
        ELSE (rank - 18) * 100

IsHebrewLetter(c) ==
    c \in DOMAIN FINAL_FORMS \/ \E r \in 1..22 : ALEPH_BET[r] = c

\* the letters of a token, after its marks and whitespace were removed
LettersOf(token) == SelectSeq(token, IsHebrewLetter)
CleanedOf(token) ==
    SelectSeq(token, LAMBDA c : c \notin {"'", "\"", "gershayim", "geresh",
                                          "backtick", " ", "\t", "\n"})

RECURSIVE SumOfStandardValues(_)
SumOfStandardValues(letters) ==
    IF letters = <<>> THEN 0
    ELSE SumOfStandardValues(SubSeq(letters, 1, Len(letters) - 1))
         + StandardValue(letters[Len(letters)])

\* C9: hebrewNumeralToInt returns the plain sum of the standard values of the
\* recognized letters (a final form valued as its letter, other characters
\* contributing nothing); null exactly when the cleaned token is empty or has
\* no recognized letter; a result that is not null is at least 1.
C9_SumOfLetterValues ==
    Decoded =>
        /\ ret = null <=> (CleanedOf(args.hebrewNum) = <<>>
                           \/ LettersOf(args.hebrewNum) = <<>>)
        /\ ret # null => /\ Get(ret) = SumOfStandardValues(LettersOf(args.hebrewNum))
                         /\ Get(ret) >= 1

\* a token with a final form, gershayim and another letter was decoded
C9_Witness ==
    /\ Decoded
    /\ args.hebrewNum = <<"kaf_s", "gershayim", "alef">>
    /\ ret = Some(21)

\* the sum of the standard values of the letters of the token of the call
LetterSumOfArgs == SumOfStandardValues(LettersOf(args.hebrewNum))
\* the token is a phrase of its own: parseHebrewDate sees it as one part
IsOneToken(token) == SplitWhitespace(token) = <<token>>

\* C11: a year token whose letter sum is below 1000 is normalized by adding
\* 5000, by parseHebrewYear and by the year branch of parseHebrewDate alike;
\* a sum of 1000 or more is returned unchanged.
C11_YearBelow1000Plus5000 ==
    (op = "parseHebrewYear" /\ LettersOf(args.hebrewNum) # <<>>) =>
        LET normalized == IF LetterSumOfArgs < 1000 THEN 5000 + LetterSumOfArgs
                          ELSE LetterSumOfArgs
        IN  /\ ret = Some(normalized)
            /\ (IsOneToken(args.hebrewNum)
                   /\ parseHebrewDate(args.hebrewNum).year # null)
                 => parseHebrewDate(args.hebrewNum).year = Some(normalized)

\* a token summing to 779 gave 5779 in both functions
C11_Witness ==
    /\ op = "parseHebrewYear"
    /\ LetterSumOfArgs = 779
    /\ ret = Some(5779)
    /\ parseHebrewDate(args.hebrewNum).year = Some(5779)

\* a token summing to 1200 was returned unchanged by both functions
C11_WitnessUnchanged ==
    /\ op = "parseHebrewYear"
    /\ LetterSumOfArgs = 1200
    /\ ret = Some(1200)
    /\ parseHebrewDate(args.hebrewNum).year = Some(1200)

\* He-geresh, Tav, Shin, Pe, gershayim (written as a double quote), He
YEAR_WITH_THOUSANDS_MARKER == <<"he", "'", "tav", "shin", "pe", "\"", "he">>

\* C12: the year written with the leading thousands marker is converted to
\* 5785 by hebrewNumeralToInt and by parseHebrewYear.
C12_ThousandsMarkerGives5785 ==
    (op \in {"hebrewNumeralToInt", "parseHebrewYear"}
        /\ args.hebrewNum = YEAR_WITH_THOUSANDS_MARKER)
      => ret = Some(5785)

(***************************************************************************)
(* Properties of parseHebrewMonth (checked under SpecMonth)                *)
(***************************************************************************)
\* the positions of the table whose key is the token, and those whose key
\* contains the token or is contained in it
ExactKeys(token) == { i \in 1..Len(HEBREW_MONTHS) : HEBREW_MONTHS[i][1] = token }
RelatedKeys(token) ==
    { i \in 1..Len(HEBREW_MONTHS) :
        \/ Includes(HEBREW_MONTHS[i][1], token)
        \/ Includes(token, HEBREW_MONTHS[i][1]) }
\* the canonical name of a month: the first key of the table with its index
CanonicalKey(index) ==
    SetMin({ i \in 1..Len(HEBREW_MONTHS) : HEBREW_MONTHS[i][2] = index })
TokenOfArgs == Trim(args.monthStr)

\* the result is null or an index in 1..13
MonthIndexOrNull == ret = null \/ (IsNumber(ret) /\ Get(ret) \in 1..13)
\* a key of the table resolves to the index of its canonical name
VariantsResolveAsCanonical ==
    \A i \in ExactKeys(TokenOfArgs) :
        /\ ret = Some(HEBREW_MONTHS[i][2])
        /\ ret = parseHebrewMonth(HEBREW_MONTHS[CanonicalKey(HEBREW_MONTHS[i][2])][1])
\* without an exact key: the first key, in table order, that contains the
\* token or is contained in it; null when there is none
FallbackIsFirstRelatedKey ==
    (args.monthStr # <<>> /\ ExactKeys(TokenOfArgs) = {}) =>
        ret = IF RelatedKeys(ToLowerCase(TokenOfArgs)) = {} THEN null
              ELSE Some(HEBREW_MONTHS[SetMin(RelatedKeys(ToLowerCase(TokenOfArgs)))][2])

\* C13: parseHebrewMonth returns null or an index in 1..13; every variant of
\* the table resolves to the same index as its canonical name; without an
\* exact key it returns the index of the first table key, in table order,
\* that contains the token or is contained in it.
C13_MonthResolution ==
    op = "parseHebrewMonth" =>
        /\ MonthIndexOrNull
        /\ VariantsResolveAsCanonical
        /\ FallbackIsFirstRelatedKey

\* the same statement for the tokens that name no property inherited by the
\* table from Object.prototype
C13_MonthResolutionOfOwnKeys ==
    (op = "parseHebrewMonth" /\ TokenOfArgs \notin OBJECT_PROTOTYPE_KEYS) =>
        /\ MonthIndexOrNull
        /\ VariantsResolveAsCanonical
        /\ FallbackIsFirstRelatedKey

(***************************************************************************)
(* Properties of extractGregorianYears (checked under SpecYears)           *)
(***************************************************************************)
\* the positions of the text where a year 19xx or 20xx stands as a word of
\* its own, and the years that stand there
YearPositions == { i \in 1..Len(args.text) : YearMatchAt(args.text, i) }
YearsInText == { NumberOf(args.text, i) : i \in YearPositions }

\* C14: without a 19xx/20xx year both results are null; one match is the
\* death year and the birth year stays null; with two or more matches the
\* birth year is their minimum and the death year their maximum, whatever
\* their order in the text.
C14_BirthIsMinDeathIsMax ==
    op = "extractGregorianYears" =>
        /\ YearPositions = {} => (ret.birthYear = null /\ ret.deathYear = null)
        /\ Cardinality(YearPositions) = 1 =>
              /\ ret.birthYear = null
              /\ ret.deathYear = Some(SetMin(YearsInText))
        /\ Cardinality(YearPositions) >= 2 =>
              /\ ret.birthYear = Some(SetMin(YearsInText))
              /\ ret.deathYear = Some(SetMax(YearsInText))

\* three years, the latest first and the earliest last: the middle one
\* (in value) was discarded
C14_Witness ==
    /\ op = "extractGregorianYears"
    /\ YearMatches(args.text, 1) = <<2019, 1990, 1938>>
    /\ ret.birthYear = Some(1938) /\ ret.deathYear = Some(2019)

(***************************************************************************)
(* Properties of a session of calls (checked under SpecSession)            *)
(***************************************************************************)
SameCall(a, b) == a.fn = b.fn /\ a.input = b.input

C16_RawTextVerbatim ==
    Validated =>
        /\ ret.kind = "return"
        /\ ret.value.hebrewDate.rawText = args.hebrewDateStr
        /\ ret.value.gregorianDate.rawText = args.gregorianYearStr

\* nothing was parsed from a Hebrew text with a leading space and a Gregorian
\* text without a year, and both texts were kept
C16_Witness ==
    /\ Validated
    /\ parseHebrewDate(args.hebrewDateStr) = NothingParsed
    /\ args.hebrewDateStr # Trim(args.hebrewDateStr)
    /\ DeathYearOfArgs = null /\ args.gregorianYearStr # <<>>
    /\ ret.value.hebrewDate.rawText = args.hebrewDateStr
    /\ ret.value.gregorianDate.rawText = args.gregorianYearStr

\* the calls of one conversion function made during the validation
CallsOf(fn) == SelectSeq(ret.calls, LAMBDA c : c.fn = fn)

\* C17: hebrewToGregorian is called at most once per validation, only when
\* both years are present, with the parsed day (15 when none was parsed), the
\* parsed month (7 when none was parsed) and the parsed Hebrew year.
C17_ConversionCalledOnceWithDefaults ==
    LET f == FactsOfArgs IN
    Validated =>
        /\ Len(CallsOf("hebrewToGregorian")) <= 1
        /\ Len(CallsOf("hebrewToGregorian")) = 1 =>
              /\ f.bothYears
              /\ CallsOf("hebrewToGregorian")[1].args =
                     << IF f.day = null THEN 15 ELSE Get(f.day),
                        IF f.month = null THEN Some(7) ELSE f.month,
                        Get(f.hebrewYear) >>

\* a year alone was converted as the 15th of month 7 of that year
C17_Witness ==
    /\ Validated /\ BothYearsPresent
    /\ DayOfArgs = null /\ MonthOfArgs = null
    /\ CallsOf("hebrewToGregorian") =
           <<Call("hebrewToGregorian", <<15, Some(7), Get(HebrewYearOfArgs)>>)>>

\* C18: with both years present, a successful conversion and a difference of
\* at most 1 the result is consistent and carries no discrepancyExplanation,
\* no expectedGregorianDate and no expectedHebrewDate; the two expected dates
\* appear only in results with isConsistent = false.
C18_ConsistentCarriesNothing ==
    LET f == FactsOfArgs IN
    Validated =>
        /\ (f.bothYears /\ f.converts /\ Get(f.difference) <= 1) =>
              /\ ret.kind = "return"
              /\ ret.value.isConsistent = TRUE
              /\ ret.value.discrepancyExplanation = null
              /\ ret.value.expectedGregorianDate = null
              /\ ret.value.expectedHebrewDate = null
        /\ (ret.kind = "return"
               /\ (ret.value.expectedGregorianDate # null
                     \/ ret.value.expectedHebrewDate # null))
             => ret.value.isConsistent = FALSE

\* the converted year is the recorded year and the result carries nothing
C18_Witness ==
    /\ Validated /\ BothYearsPresent /\ ConversionSucceeds
    /\ YearDifferenceOfArgs = 0
    /\ ret.kind = "return" /\ ret.value.isConsistent
    /\ ret.value.discrepancyExplanation = null

\* C19: in the mismatch branch gregorianToHebrew is called exactly once, with
\* 1 January of the recorded death year; expectedHebrewDate is present
\* exactly when that call returned a value, and the result is
\* isConsistent = false either way.  In no other branch is it called.
C19_BackConversionOnlyOnMismatch ==
    LET f == FactsOfArgs IN
    Validated =>
        /\ f.mismatch =>
              /\ CallsOf("gregorianToHebrew") =
                     <<Call("gregorianToHebrew",
                            <<[fullYear |-> Get(f.deathYear), month |-> 0,
                               date |-> 1]>>)>>
              /\ ret.kind = "return"
              /\ ret.value.isConsistent = FALSE
              /\ ret.value.expectedHebrewDate # null <=> args.cal.fromGreg = "ok"
        /\ ~f.mismatch => CallsOf("gregorianToHebrew") = <<>>

\* a mismatch whose back conversion returned a value
C19_Witness ==
    /\ Validated /\ MismatchOfArgs
    /\ Len(CallsOf("gregorianToHebrew")) = 1
    /\ args.cal.fromGreg = "ok"
    /\ ret.kind = "return" /\ ~ret.value.isConsistent
    /\ ret.value.expectedHebrewDate # null

\* C20: every HebrewDateInfo produced by validateDateConsistency satisfies
\* the data model: day, when present, is in 1..30; monthNumeric, when
\* present, is in 1..13; year, when present, is a 4-digit year (1000..9999).
C20_HebrewDateInfoInRange ==
    (Validated /\ ret.kind = "return") =>
        LET info == ret.value.hebrewDate
        IN  /\ info.day # null => Get(info.day) \in 1..30
            /\ info.monthNumeric # null =>
                  (IsNumber(info.monthNumeric) /\ Get(info.monthNumeric) \in 1..13)
            /\ info.year # null => Get(info.year) \in 1000..9999

\* the same statement about day and monthNumeric alone
C20_DayAndMonthInRange ==
    (Validated /\ ret.kind = "return") =>
        LET info == ret.value.hebrewDate
        IN  /\ info.day # null => Get(info.day) \in 1..30
            /\ info.monthNumeric # null =>
                  (IsNumber(info.monthNumeric) /\ Get(info.monthNumeric) \in 1..13)

\* the same statement about day and year alone
C20_DayAndYearInRange ==
    (Validated /\ ret.kind = "return") =>
        LET info == ret.value.hebrewDate
        IN  /\ info.day # null => Get(info.day) \in 1..30
            /\ info.year # null => Get(info.year) \in 1000..9999

(***************************************************************************)
(* Properties of the token loop of parseHebrewDate (checked under          *)
(* SpecParser)                                                             *)
(***************************************************************************)
\* what the parser holds after the first i tokens of the phrase
AfterParts(i) == parseHebrewDate(Join(SubSeq(PartsOfArgs, 1, i)))

\* the tokens the month resolver answers for
MonthParts ==
    { i \in 1..Len(PartsOfArgs) :
        /\ PartsOfArgs[i] \notin SKIPPED_PREFIXES
        /\ parseHebrewMonth(PartsOfArgs[i]) # null }

\* C21: the month resolver is tried before numeral decoding for every token
\* that is no skipped prefix: a token for which parseHebrewMonth returns a
\* value sets month to that value and monthName to the token itself, and
\* leaves day and year as they were before the token (it is not decoded as a
\* numeral).
C21_MonthBeforeNumeral ==
    Parsed =>
        /\ ret = AfterParts(Len(PartsOfArgs))
        /\ \A i \in MonthParts :
              LET before == AfterParts(i - 1)
                  after == AfterParts(i)
              IN  /\ after.month = parseHebrewMonth(PartsOfArgs[i])
                  /\ after.monthName = Some(PartsOfArgs[i])
                  /\ after.day = before.day
                  /\ after.year = before.year

\* a year, then the month Adar, whose letters sum to 205: the year stays
C21_Witness ==
    /\ Parsed
    /\ Len(PartsOfArgs) = 2 /\ MonthParts = {2}
    /\ hebrewNumeralToInt(PartsOfArgs[2]) = Some(205)
    /\ ret.year = Some(5779) /\ ret.month = Some(12)
    /\ ret.monthName = Some(<<"alef", "dalet", "resh">>)

\* the three dropped prefixes as the claim names them
DROPPED_PREFIXES == { <<"bet">>, <<"lamed">>, <<"nun", "pe", "'">> }

\* a token that does not contribute: a dropped prefix, or a token that is
\* neither a month nor a numeral
IsIdleToken(token) ==
    \/ token \in DROPPED_PREFIXES
    \/ parseHebrewMonth(token) = null /\ hebrewNumeralToInt(token) = null

IdleParts == { i \in 1..Len(PartsOfArgs) : IsIdleToken(PartsOfArgs[i]) }

\* the phrase without its tokens that do not contribute
WithoutIdleTokens ==
    LET Contributes(token) == ~IsIdleToken(token)
    IN  Join(SelectSeq(PartsOfArgs, Contributes))

\* C22: a token equal to one of the three dropped prefixes is skipped even
\* though it decodes to a numeral, and a token that is neither a month nor a
\* numeral is ignored: wherever such tokens stand in a phrase, day, month,
\* monthName and year are those of the phrase without them, and the parser
\* returns a result.
C22_IdleTokensChangeNothing ==
    Parsed =>
        /\ \A prefix \in DROPPED_PREFIXES : hebrewNumeralToInt(prefix) # null
        /\ \A i \in IdleParts : AfterParts(i) = AfterParts(i - 1)
        /\ ret = parseHebrewDate(WithoutIdleTokens)
        /\ DOMAIN ret = {"day", "month", "monthName", "year"}

\* day 11 followed by the preposition Lamed (30 as a numeral, and a part of
\* the month name Elul): the day alone is returned
C22_Witness ==
    /\ Parsed
    /\ PartsOfArgs = <<DayToken(11), <<"lamed">>>>
    /\ IdleParts = {2}
    /\ ret = [day |-> Some(11), month |-> null, monthName |-> null, year |-> null]

\* a year followed by a word that is neither a month nor a numeral
C22_WitnessUnknownWord ==
    /\ Parsed
    /\ Len(PartsOfArgs) = 2 /\ IdleParts = {2}
    /\ PartsOfArgs[2] \notin DROPPED_PREFIXES
    /\ ret.year = Some(5779)

\* the abbreviation Nun-Pe-geresh (130 as a numeral) between a day and a year
C22_WitnessBetween ==
    /\ Parsed
    /\ Len(PartsOfArgs) = 3 /\ IdleParts = {2}
    /\ PartsOfArgs[2] = <<"nun", "pe", "'">>
    /\ ret.day = Some(11) /\ ret.year = Some(5779)

\* The loop body with the year rule reduced to the test of the value.
ParseStepByValue(st, part) ==
    IF part \in SKIPPED_PREFIXES THEN st
    ELSE IF parseHebrewMonth(part) # null
         THEN [st EXCEPT !.month = parseHebrewMonth(part), !.monthName = Some(part)]
         ELSE LET numValue == hebrewNumeralToInt(part)
              IN  IF numValue = null THEN st
                  ELSE IF Get(numValue) > 31
                       THEN [st EXCEPT !.year =
                                Some(IF Get(numValue) < 1000
                                     THEN 5000 + Get(numValue)
                                     ELSE Get(numValue))]
                       ELSE IF Get(numValue) >= 1 /\ Get(numValue) <= 30
                            THEN [st EXCEPT !.day = numValue]
                            ELSE st

RECURSIVE ParsePartsByValue(_, _)
ParsePartsByValue(st, parts) ==
    IF parts = <<>> THEN st
    ELSE ParsePartsByValue(ParseStepByValue(st, Head(parts)), Tail(parts))

\* C27: the Tav/Shin test of the year rule is redundant: for every token
\* that reaches numeral decoding, 'value > 31 or the token contains Tav or
\* Shin' holds exactly when 'value > 31' holds, since a token with Tav or
\* Shin sums to at least 300; the parser returns what a parser classifying by
\* value alone returns.
C27_TavShinTestRedundant ==
    Parsed =>
        /\ \A i \in NumeralParts :
              /\ HasTavOrShin(PartsOfArgs[i]) => ValueOfPart(i) >= 300
              /\ (ValueOfPart(i) > 31 \/ HasTavOrShin(PartsOfArgs[i]))
                    <=> ValueOfPart(i) > 31
        /\ ret = ParsePartsByValue(NothingParsed, PartsOfArgs)

\* Shin written twice: a year by its value, 600
C27_Witness ==
    /\ Parsed
    /\ PartsOfArgs = << <<"shin", "shin">> >>
    /\ NumeralParts = {1} /\ ValueOfPart(1) = 600
    /\ ret.year = Some(5600) /\ ret.day = null

\* the year a year-classified token gives
YearOfPart(i) ==
    IF ValueOfPart(i) < 1000 THEN 5000 + ValueOfPart(i) ELSE ValueOfPart(i)

\* C28: the tokens are processed left to right and the last qualifying token
\* wins for each field independently: the returned year is that of the last
\* year-classified token, the day that of the last day-classified token, the
\* month and its name those of the last month token; a later word whose
\* letter sum exceeds 31 replaces a year parsed earlier in the phrase.
C28_LastTokenWins ==
    Parsed =>
        LET years == YearParts
            days == DayParts
            months == MonthParts
            lastYear == IF years = {} THEN 0 ELSE SetMax(years)
            lastDay == IF days = {} THEN 0 ELSE SetMax(days)
            lastMonth == IF months = {} THEN 0 ELSE SetMax(months)
        IN  /\ ret.year = IF years = {} THEN null ELSE Some(YearOfPart(lastYear))
            /\ ret.day = IF days = {} THEN null ELSE Some(ValueOfPart(lastDay))
            /\ ret.month = IF months = {} THEN null
                            ELSE parseHebrewMonth(PartsOfArgs[lastMonth])
            /\ ret.monthName = IF months = {} THEN null
                                ELSE Some(PartsOfArgs[lastMonth])

\* the year 5779 followed by a word of the letters Qof and Kaf (120)
C28_Witness ==
    /\ Parsed
    /\ PartsOfArgs = << <<"tav", "shin", "ayin", "\"", "tet">>, <<"qof", "kaf">> >>
    /\ YearParts = {1, 2}
    /\ ret.year = Some(5120)

\* two days and two months: the later of each is returned
C28_WitnessDayAndMonth ==
    /\ Parsed
    /\ \/ Cardinality(DayParts) = 2
            /\ ValueOfPart(1) # ValueOfPart(2) /\ ret.day = Some(ValueOfPart(2))
       \/ Cardinality(MonthParts) = 2
            /\ parseHebrewMonth(PartsOfArgs[1]) # parseHebrewMonth(PartsOfArgs[2])
            /\ ret.month = parseHebrewMonth(PartsOfArgs[2])

(***************************************************************************)
(* Properties of the Gregorian years of a validation (checked under        *)
(* SpecValidator)                                                          *)
(***************************************************************************)
\* C29: each year extractGregorianYears returns is in 1900..2099; birthYear
\* is present only when deathYear is, and then birthYear <= deathYear; the
\* year of the GregorianDateInfo of the validation is the deathYear, never
\* the birthYear.
C29_GregorianYearIsDeathYear ==
    Validated =>
        LET years == extractGregorianYears(args.gregorianYearStr)
            info == ret.value.gregorianDate
        IN  /\ \A y \in {years.birthYear, years.deathYear} :
                  y # null => Get(y) \in 1900..2099
            /\ years.birthYear # null =>
                  /\ years.deathYear # null
                  /\ Get(years.birthYear) <= Get(years.deathYear)
            /\ info.year = years.deathYear
            /\ years.birthYear # years.deathYear => info.year # years.birthYear

\* a text with the years 1900 and 2099 between 1899 and 2100
C29_Witness ==
    /\ Validated
    /\ extractGregorianYears(args.gregorianYearStr) =
           [birthYear |-> Some(1900), deathYear |-> Some(2099)]
    /\ ret.value.gregorianDate.year = Some(2099)

(***************************************************************************)
(* Properties of the history list (checked under SpecServer)               *)
(***************************************************************************)
\* the ids pushed so far, the newest first
NewestFirst == [k \in 1..Len(pushLog) |-> pushLog[Len(pushLog) + 1 - k]]

\* no request is between its lpush and its ltrim: every request that pushed
\* its id has trimmed the list
NoneBetweenPushAndTrim ==
    \A i \in DOMAIN requests : requests[i].pushed => requests[i].trimmed

\* the ids a request to history lists, in the order of its answer
ListedIds(i) ==
    IF requests[i].res = null THEN requests[i].ids
    ELSE [k \in 1..Len(Get(requests[i].res).results) |->
             Get(requests[i].res).results[k].id]

C23_WitnessHistory ==
    /\ Len(requests) = 2
    /\ requests[1].handler = "save" /\ requests[1].pc = "ltrim"
    /\ requests[2].handler = "history"
    /\ requests[2].res # null /\ Get(requests[2].res).status = 200
    /\ ListedIds(2) = <<requests[1].id, requests[1].id - 1>>

(***************************************************************************)
(* Properties of GET /api/history (checked under SpecHistory)              *)
(***************************************************************************)
\* the limit is written as a whole number: digits, after a minus sign or not
IsWholeNumber(string) ==
    LET digits == IF string # <<>> /\ Head(string) = "-" THEN Tail(string) ELSE string
    IN  digits # <<>> /\ \A k \in 1..Len(digits) : IsDigit(digits[k])

\* the number a limit stands for: 20 when it is missing or not a number
LimitAsNumber(limit) ==
    IF limit = null \/ ~IsWholeNumber(Get(limit)) THEN 20
    ELSE IF Head(Get(limit)) = "-"
         THEN 0 - Get(DigitsPrefix(Tail(Get(limit)), 10, null))
         ELSE Get(DigitsPrefix(Get(limit), 10, null))

\* the requests for the list that were answered with results
ListAnswers ==
    { i \in DOMAIN requests :
        /\ requests[i].handler = "history" /\ requests[i].method = "GET"
        /\ requests[i].query.id.kind # "string"
        /\ requests[i].res # null /\ Get(requests[i].res).status = 200 }

\* C25: GET /api/history without an id returns at most min(limit, 100)
\* results for every value of limit, 20 standing for a limit that is missing
\* or not a number (no results for a limit below 0).
C25_AtMostLimitResults ==
    \A i \in ListAnswers :
        Len(Get(requests[i].res).results)
            <= Max(0, Min(LimitAsNumber(requests[i].query.limit), 100))

\* what holds for every limit: at most 100 results, and at most 20 without
\* a limit
C25_AtMostHundredResults ==
    \A i \in ListAnswers :
        /\ Len(Get(requests[i].res).results) <= 100
        /\ requests[i].query.limit = null
              => Len(Get(requests[i].res).results) <= 20

(***************************************************************************)
(* Properties of POST /api/save-result (checked under SpecSave)            *)
(***************************************************************************)
\* the number of results the store held before the request
SavedBefore ==
    Len(pushLog) - Cardinality({ i \in DOMAIN requests : requests[i].pushed })

\* no blob was uploaded and nothing was written to the store
StoreUntouched ==
    /\ kv = StoreAfter(SavedBefore)
    /\ blobs = 1..SavedBefore

\* the body lacks fileName, fileBase64 or result
LacksRequiredField(body) ==
    \/ body = null
    \/ ~Get(body).fileName \/ ~Get(body).fileBase64 \/ ~Get(body).result

\* the requests to save-result that were answered
SaveAnswers ==
    { i \in DOMAIN requests : requests[i].handler = "save" /\ requests[i].res # null }

\* C26: a request that is not a POST is answered 405, a POST that lacks
\* fileName, fileBase64 or result is answered 400, and in both cases no blob
\* is uploaded and nothing is written: the stored records and results:list
\* are unchanged.
C26_RejectedWithoutWrites ==
    \A i \in SaveAnswers :
        /\ requests[i].method # "POST" =>
              Get(requests[i].res).status = 405 /\ StoreUntouched
        /\ (requests[i].method = "POST" /\ LacksRequiredField(requests[i].body)) =>
              Get(requests[i].res).status = 400 /\ StoreUntouched

\* what holds of every rejected request: nothing is written, and the status
\* is 400 when the body is an object
C26_RejectedWritesNothing ==
    \A i \in SaveAnswers :
        (requests[i].method # "POST" \/ LacksRequiredField(requests[i].body)) =>
            /\ StoreUntouched
            /\ Get(requests[i].res).status =
                  IF requests[i].method # "POST" THEN 405
                  ELSE IF requests[i].body = null THEN 500 ELSE 400

(***************************************************************************)
(* Properties of the upload page (checked under SpecPage)                  *)
(***************************************************************************)
RunsInProgress == {r \in DOMAIN runs : InProgress(runs[r])}

\* C30: PDFUploader never invokes onFileSelect while isProcessing is true,
\* whether the file is chosen in the file dialog or dropped on the upload
\* area, so that no run of processFile starts while another is in progress.
C30_NeverSelectsWhileProcessing ==
    /\ \A r \in DOMAIN runs : ~runs[r].whileProcessing
    /\ Cardinality(RunsInProgress) <= 1

\* the pages of a run were sent in page order, and each only after the one
\* before it was answered
PagesOneAtATime(run) ==
    /\ Len(run.sent) <= run.totalPages
    /\ \A k \in DOMAIN run.sent : run.sent[k] = k
    /\ run.answered = Len(run.sent) - (IF run.pc = "analyzing" THEN 1 ELSE 0)

\* a run that failed validated no date and set no report; a run that
\* completed had every page answered, and set the report
RunOutcome(run) ==
    /\ run.outcome = "error" => ~run.validated /\ ~run.reportSet
    /\ run.outcome = "completed" =>
           /\ run.answered = run.totalPages
           /\ run.totalPages > 0
           /\ run.validated
           /\ run.reportSet

C24_Runs ==
    /\ \A r \in DOMAIN runs : PagesOneAtATime(runs[r]) /\ RunOutcome(runs[r])
    /\ page.status = "completed" => page.report # null

\* a step of the page: a run that fails leaves status 'error' and the error
\* message, a run that is over does nothing more, and the status becomes
\* 'completed' only by a run whose pages were all answered, with the report
C24_Step ==
    /\ \A r \in DOMAIN runs :
           /\ InProgress(runs[r]) /\ runs'[r].outcome = "error" =>
                  page'.status = "error" /\ page'.error # null
           /\ ~InProgress(runs[r]) => runs'[r] = runs[r]
    /\ page.status # "completed" /\ page'.status = "completed" =>
           \E r \in DOMAIN runs :
               /\ InProgress(runs[r])
               /\ runs'[r].outcome = "completed"
               /\ runs'[r].answered = runs'[r].totalPages
               /\ page'.report = Some([fileName |-> runs[r].file.name,
                                       pages |-> runs[r].totalPages])

\* C24: within one run of processFile the pages are analysed one at a time
\* in page order; when the conversion or the analysis of a page fails, no
\* later page is sent, no date is validated, no report is set, and the run
\* ends with status 'error' and the error message; status 'completed' is
\* reached only after every page was analysed and the report was set.
C24_PagesInOrderUntilFailure == []C24_Runs /\ [][C24_Step]_vars

\* the first of two pages failed: the second was never sent, and the page
\* shows the error
C24_Witness ==
    \E r \in DOMAIN runs :
        /\ runs[r].outcome = "error"
        /\ runs[r].totalPages = 2
        /\ runs[r].sent = <<1>>
        /\ page.status = "error"
        /\ page.report = null

\* both pages of a PDF were analysed, and the page shows the report
C24_WitnessCompleted ==
    \E r \in DOMAIN runs :
        /\ runs[r].outcome = "completed"
        /\ runs[r].sent = <<1, 2>>
        /\ page.status = "completed"
        /\ page.report # null

\* the conversion of a PDF failed: no page was sent
C24_WitnessConversion ==
    \E r \in DOMAIN runs :
        /\ runs[r].outcome = "error"
        /\ runs[r].sent = <<>>
        /\ page.status = "error"

=============================================================================
